---- MODULE Spec2Model ----
(***************************************************************************)
(* A model of react-redux-appauth: the AuthAdapter (token lifecycle and    *)
(* the three sign-in transports), the popup and iframe request handlers,   *)
(* and the popup and iframe transport windows.                             *)
(*                                                                         *)
(* JavaScript runs one task at a time: a task (a call from the             *)
(* application, a timer callback, a message event, the arrival of a        *)
(* network answer) and every promise continuation it makes runnable form   *)
(* one atomic step.  The adapter's store is LocalStorageBackend, whose     *)
(* operations take effect when they are called, so they belong to the      *)
(* step of the caller.  Steps are separated only by real asynchrony: the   *)
(* network, timers, cross-window messages, the hash computation of the     *)
(* PKCE challenge, and the user.                                           *)
(*                                                                         *)
(* An absent string (undefined, null, '') is "", an absent number is 0.    *)
(***************************************************************************)
EXTENDS Integers, Sequences, FiniteSets, TLC

\* ------------------------------------------------------------------ bounds

\* Token-endpoint POSTs issued in one behaviour.
MaxRequests == 3
\* Advances of the clock in one behaviour.
MaxTicks == 2
\* Sign-in calls (signInRedirect, signInPopup, signInSilent) in one behaviour.
MaxFlows == 2
\* Handlers registered at a time.
MaxHandlers == 2

\* ------------------------------------------------------- program constants

\* Default buffer of isRefreshValid (10 * 60 * -1); TokenResponse.isValid of
\* the appauth base class has the same default (AUTH_EXPIRY_BUFFER).
DefaultBuffer == -600
\* Buffer checkExpire passes to isValid.
ExpireBuffer == -60

\* ------------------------------------------------------------ input domains

\* Seconds by which the clock may advance between two steps.
Steps == {541, 3000}
\* expires_in values the token endpoint may answer with (0: field absent).
ExpiresInChoices == {0, 300, 3600}
\* refresh_expires_in values (0: field absent).
RefreshExpiresInChoices == {0, 1800, 86400}

VARIABLES
  settings,             \* AuthAdapter._settings
  idp,                  \* the lifetimes the identity provider gives its tokens
  configuration,        \* AuthAdapter._configuration is set
  refreshToken,         \* AuthAdapter._refreshToken
  accessTokenResponse,  \* AuthAdapter._accessTokenResponse
  now,                  \* nowInSeconds()
  ticks,                \* clock advances so far
  requests,             \* token-endpoint POSTs in flight
  nreq,                 \* POSTs issued so far
  last,                 \* the sign-in or token call that ended or suspended last
  flows,                \* the sign-in calls: request, position, result
  nflow,                \* sign-in calls so far
  wins,                 \* the PopupWindow / IFrameWindow objects
  iframeField,          \* IFrameRequestHandler._IFrame (0: undefined)
  storage,              \* the correlation store (localStorage)
  msgs,                 \* messages posted to the opener, not yet delivered
  location,             \* callback parameters in the URL of the main page
  handlers,             \* AuthAdapter._handlers, in registration order
  event,                \* the notification the handlers were called with last
  navigated,            \* where the adapter sent the main window last
  callback,             \* the promise and the timer of signinCallback()
  auth                  \* the Redux store's state.auth (AuthSlice)

adapterVars == <<configuration, refreshToken, accessTokenResponse>>
clockVars == <<now, ticks>>
flowVars == <<flows, nflow, wins, iframeField, storage, msgs>>
observerVars == <<handlers, event, navigated, callback>>

vars == <<settings, idp, configuration, refreshToken, accessTokenResponse,
          now, ticks, requests, nreq, last, flows, nflow, wins, iframeField,
          storage, msgs, location, handlers, event, navigated, callback,
          auth>>

Flows == 1..MaxFlows

\* ------------------------------------------------------------ token model

\* AuthAdapter._accessTokenResponse = undefined
NoResponse ==
  [held |-> FALSE, accessToken |-> "", refreshToken |-> "",
   issuedAt |-> 0, expiresIn |-> 0, refreshExpiresIn |-> 0]

\* new ExtendedOidcTokenResponse(json): issued_at is the time of receipt.
ExtendedOidcTokenResponse(json, t) ==
  [held |-> TRUE, accessToken |-> json.access_token,
   refreshToken |-> json.refresh_token,
   issuedAt |-> t, expiresIn |-> json.expires_in,
   refreshExpiresIn |-> json.refresh_expires_in]

\* TokenResponse.isValid(buffer)
isValid(resp, buffer, t) ==
  IF resp.expiresIn # 0
    THEN t < resp.issuedAt + resp.expiresIn + buffer
    ELSE TRUE

\* ExtendedOidcTokenResponse.isRefreshValid(buffer)
isRefreshValid(resp, buffer, t) ==
  IF resp.refreshExpiresIn # 0
    THEN t < resp.issuedAt + resp.refreshExpiresIn + buffer
    ELSE TRUE

\* new TokenRequest({...}): the fields the adapter passes.
TokenRequest(grantType, redirectUri, code, refresh, verifier) ==
  [grant_type |-> grantType, client_id |-> "client",
   redirect_uri |-> redirectUri, code |-> code,
   refresh_token |-> refresh, code_verifier |-> verifier]

\* TokenRequest.toStringMap(): grant_type, client_id and redirect_uri always,
\* code and refresh_token when set, then the extras.
toStringMap(req) ==
  LET keys == {"grant_type", "client_id", "redirect_uri"}
              \cup (IF req.code # "" THEN {"code"} ELSE {})
              \cup (IF req.refresh_token # "" THEN {"refresh_token"} ELSE {})
              \cup (IF req.code_verifier # "" THEN {"code_verifier"} ELSE {})
  IN [k \in keys |-> req[k]]

\* BasicQueryStringUtils.stringify(map): the entries with a non-empty value.
stringify(map) ==
  [k \in {x \in DOMAIN map : map[x] # ""} |-> map[k]]

\* ExtendedTokenRequestHandler.performTokenRequest: the form body it posts.
\* cleaned_request (the map without redirect_uri) is computed for the refresh
\* grant and then not used: the body is built from request.toStringMap().
performTokenRequest(req) ==
  stringify(toStringMap(req))

\* ------------------------------------------------------- transport windows

\* What a window's promise settled with: the response of a message (code,
\* state), or the error of a message (error: the IdP's error code), or an
\* Error raised by the window itself (reason: its text).
Value(code, state, error, reason) ==
  [code |-> code, state |-> state, error |-> error, reason |-> reason]

NoValue == Value("", "", "", "")

\* A callback URL: the state, code and error parameters of its fragment.
Url(state, code, error) == [state |-> state, code |-> code, error |-> error]

\* What completeAuthorizationRequest resolves with: null (found = FALSE), or
\* {request, response, error} with response null unless hasResponse and error
\* null unless error # "".
Null ==
  [found |-> FALSE, hasResponse |-> FALSE, code |-> "", state |-> "",
   error |-> ""]
Reconciled(state, code, error) ==
  [found |-> TRUE, hasResponse |-> (error = ""), code |-> code,
   state |-> state, error |-> error]

\* What the page loaded in a surface did with its callback URL:
\*   "none"     no callback yet
\*   "nohandle" completeAuthorizationRequestIfPossible found no pointer
\*   "threw"    the pointer names a handle with no request under it
\*   "done"     the selected handler's completeAuthorizationRequest resolved
\*              with res
NoPage == [status |-> "none", handler |-> "none", res |-> Null]

\* A PopupWindow or IFrameWindow object.
\*   surface  : "none" (no object yet), "open" (_popup / _iframe refers to an
\*              open popup or an attached iframe), "closed" (_popup refers to a
\*              popup the user closed), "null" (_popup / _iframe is null)
\*   listener : the listener of the latest navigate() is registered
\*   timeout  : the authorization timer of the latest navigate() is armed
\*   poll     : the popup-closed interval is armed
\*   staleListeners, staleTimeouts : listeners and timers of earlier navigate()
\*              calls on the same object, whose handles were overwritten
\*   at       : the flow whose authorization URL the surface was sent to and
\*              has not yet come back from (0: none)
\*   url, page: the callback URL the surface came back with, and what the page
\*              loaded there did with it
NoWindow ==
  [kind |-> "none", surface |-> "none", listener |-> FALSE, timeout |-> FALSE,
   poll |-> FALSE, staleListeners |-> 0, staleTimeouts |-> 0,
   promise |-> "pending", value |-> NoValue, at |-> 0,
   url |-> Url("", "", ""), page |-> NoPage]

\* new PopupWindow(params): window.open() gives a popup, or null when blocked.
PopupWindow(blocked) ==
  [NoWindow EXCEPT !.kind = "popup",
                   !.surface = IF blocked THEN "null" ELSE "open"]

\* new IFrameWindow(params): a hidden iframe appended to the document.
IFrameWindow ==
  [NoWindow EXCEPT !.kind = "iframe", !.surface = "open"]

\* A settle that overwrites an earlier settlement.
settleAgain(w, how, v) ==
  [w EXCEPT !.promise = how, !.value = v]

\* _resolve / _reject of the window's promise: a promise settles once, later
\* calls change nothing.
settle(w, how, v) ==
  IF w.promise = "pending"
    THEN [w EXCEPT !.promise = how, !.value = v]
    ELSE w

\* PopupWindow.cleanup(): clears the poll interval, removes the listener,
\* closes the popup.  The authorization timer is not its business.
cleanupPopup(w) ==
  [w EXCEPT !.poll = FALSE, !.listener = FALSE, !.surface = "null", !.at = 0]

\* IFrameWindow.cleanup(): clears the timer, removes the listener, removes the
\* iframe from the document.
cleanupIFrame(w) ==
  [w EXCEPT !.timeout = FALSE, !.listener = FALSE, !.surface = "null",
            !.at = 0]

cleanup(w) ==
  IF w.kind = "popup" THEN cleanupPopup(w) ELSE cleanupIFrame(w)

\* abort(): the same statements as cleanup(); the promise is left alone.
abort(w) ==
  IF w.kind = "popup"
    THEN [w EXCEPT !.poll = FALSE, !.listener = FALSE, !.surface = "null",
                   !.at = 0]
    ELSE [w EXCEPT !.timeout = FALSE, !.listener = FALSE, !.surface = "null",
                   !.at = 0]

\* A listener that looks at the error of a message before its response.
listenerErrorFirst(w, id, m) ==
  IF m.type # "authorization_response" THEN w
  ELSE IF m.error # "" THEN settle(cleanup(w), "rejected",
                                   Value("", m.state, m.error, ""))
  ELSE IF m.code # "" THEN settle(cleanup(w), "resolved",
                                  Value(m.code, m.state, "", ""))
  ELSE settle(cleanup(w), "rejected",
              Value("", "", "", "OIDC: Both response and error where empty"))

\* _popupEventListener / _iframeEventListener of window id on message m: any
\* message of type authorization_response is taken, whoever posted it.
listener(w, id, m) ==
  IF m.type # "authorization_response" THEN w
  ELSE IF m.code # "" THEN settle(cleanup(w), "resolved",
                                  Value(m.code, m.state, "", ""))
  ELSE IF m.error # "" THEN settle(cleanup(w), "rejected",
                                   Value("", m.state, m.error, ""))
  ELSE settle(cleanup(w), "rejected",
              Value("", "", "", "OIDC: Both response and error where empty"))

\* navigate({url, id}) with a url, for flow f.  A second navigate() on the same
\* IFrameWindow overwrites the timer handle and the listener field: the earlier
\* timer and listener stay armed and can no longer be cancelled.
navigate(w, f) ==
  IF w.surface = "null"
    THEN settle(w, "rejected",
                Value("", "", "",
                      "PopupWindow.navigate: Error opening popup window"))
  ELSE IF w.kind = "popup"
    THEN [w EXCEPT !.poll = TRUE, !.timeout = TRUE, !.listener = TRUE,
                   !.at = f]
  ELSE [w EXCEPT !.staleTimeouts = @ + (IF w.timeout THEN 1 ELSE 0),
                 !.timeout = TRUE,
                 !.staleListeners = @ + (IF w.listener THEN 1 ELSE 0),
                 !.listener = TRUE,
                 !.at = f]

\* navigate(params) without params or without params.url: _reject is called
\* twice, and nothing else is done.
navigateNoUrl(w) ==
  IF w.surface = "null"
    THEN settle(w, "rejected",
                Value("", "", "",
                      "PopupWindow.navigate: Error opening popup window"))
    ELSE settle(settle(w, "rejected",
                       Value("", "", "",
                             "PopupWindow.navigate: no url provided")),
                "rejected", Value("", "", "", "No url provided"))

\* The authorization timer of the latest navigate() fires.
timeoutFires(w) ==
  IF w.kind = "popup"
    THEN settle([cleanupPopup(w) EXCEPT !.timeout = FALSE], "rejected",
                Value("", "", "", "Popup Timeout"))
    ELSE settle(cleanupIFrame(w), "rejected",
                Value("", "", "", "IFrame Timeout"))

\* The popup-closed interval fires and finds the popup gone: cleanup(),
\* clearTimeout(timeoutId), reject.
pollFindsClosed(w) ==
  settle([cleanupPopup(w) EXCEPT !.timeout = FALSE], "rejected",
         Value("", "", "", "Popup window closed"))

\* -------------------------------------------------------- request handlers

\* The correlation store: the current-request pointer (a handle, 0: absent),
\* and the handles under which a request and a configuration are stored.  The
\* handle of flow f is f; the request stored under f is the request of flow f.
EmptyStorage == [pointer |-> 0, reqs |-> {}, cfgs |-> {}]

\* A sign-in call that was not made yet.
\*   verifier  : request.internal.code_verifier of the request in memory or,
\*               once the page was left, of the request in the store
\*   challenge : the code_challenge of the authorization URL the surface was
\*               sent to
\*   generated : the code verifiers generated for the request so far
\*   first     : the digest of the verifier generated first, "hashing" until
\*               crypto.subtle.digest has answered
NoFlow ==
  [kind |-> "none", pc |-> "idle", state |-> "", redirect_uri |-> "",
   verifier |-> "", win |-> 0, result |-> "pending", error |-> "",
   reason |-> "", challenge |-> "", generated |-> 0, first |-> "none"]

\* crypto.deriveChallenge(verifier): the S256 challenge of a verifier.
deriveChallenge(v) == "S256:" \o v

\* crypto.generateRandom(128) of the n-th setupCodeVerifier() on the request
\* of sign-in call f: the adapter's call is the first, toJson()'s the second.
FirstVerifier(f) == "u" \o ToString(f)
SecondVerifier(f) == "v" \o ToString(f)

\* request.setupCodeVerifier(): a new random verifier is generated and its
\* challenge is being derived; internal.code_verifier and
\* extras.code_challenge are assigned when the digest has answered.
setupCodeVerifier(req) ==
  [req EXCEPT !.generated = @ + 1,
              !.first = IF @ = "none" THEN "hashing" ELSE @]

\* request.toJson(): "Calling toJson() adds in the code & challenge": it calls
\* setupCodeVerifier() and resolves with the fields of the request after it.
toJson(req) == setupCodeVerifier(req)

\* new AuthorizationRequest({...}) of sign-in call f, with a fresh state; the
\* adapter calls request.setupCodeVerifier() without waiting for it and hands
\* the request to performAuthorizationRequest, which calls request.toJson()
\* and is suspended until that has resolved.
AuthorizationRequest(f, kind, redirectUri) ==
  toJson(setupCodeVerifier(
    [NoFlow EXCEPT !.kind = kind, !.pc = "persisting",
                   !.state = "s" \o ToString(f),
                   !.redirect_uri = redirectUri]))

\* The digest toJson() waited for has answered: the verifier generated second
\* is assigned to internal.code_verifier, its challenge to the extras; the
\* request is serialized, and the authorization URL is built from the extras.
toJsonResolved(req, f) ==
  [req EXCEPT !.verifier = SecondVerifier(f),
              !.challenge = deriveChallenge(SecondVerifier(f))]

\* The redirect_uri of the request signInPopup builds.
PopupRedirectUri(s) ==
  IF s.popupRedirectUri # "" THEN s.popupRedirectUri ELSE s.redirectUri

\* The redirect_uri of the request signInSilentIFrame builds.
SilentRedirectUri(s) ==
  IF s.silentRedirectUri # "" THEN s.silentRedirectUri ELSE s.redirectUri

\* performAuthorizationRequest, first part: the pointer and the configuration
\* are written under the new handle.
persistPointer(st, h) ==
  [st EXCEPT !.pointer = h, !.cfgs = @ \cup {h}]

\* performAuthorizationRequest, after request.toJson(): the request is written.
persistRequest(st, h) ==
  [st EXCEPT !.reqs = @ \cup {h}]

\* The three removeItem calls a handler makes for the flows in R once their
\* window has resolved: the pointer (whatever it names) and the two keys of
\* each handle.
removeKeys(st, R) ==
  IF R = {} THEN st
  ELSE [pointer |-> 0, reqs |-> st.reqs \ R, cfgs |-> st.cfgs \ R]

\* A completeAuthorizationRequest that does not compare the states.
completePopupAnyState(req, url) ==
  IF url.state # "" /\ url.code # ""
    THEN IF url.error # ""
           THEN Reconciled(url.state, "", url.error)
           ELSE Reconciled(url.state, url.code, "")
    ELSE Null

\* PopupRequestHandler.completeAuthorizationRequest, given the request stored
\* under the pointer and the URL of the page.
completePopup(req, url) ==
  IF url.state # "" /\ url.code # ""
    THEN IF url.state = req.state
           THEN IF url.error # ""
                  THEN Reconciled(url.state, "", url.error)
                  ELSE Reconciled(url.state, url.code, "")
           ELSE Null
    ELSE Null

\* IFrameRequestHandler.completeAuthorizationRequest
completeIFrame(req, url) ==
  IF url.state # "" /\ (url.code # "" \/ url.error # "")
    THEN IF url.state = req.state
           THEN IF url.error # ""
                  THEN Reconciled(url.state, "", url.error)
                  ELSE IF url.code # ""
                         THEN Reconciled(url.state, url.code, "")
                         ELSE [Null EXCEPT !.found = TRUE]
           ELSE Null
    ELSE Null

\* RedirectRequestHandler.completeAuthorizationRequest (appauth)
completeRedirect(req, url) ==
  IF url.state = req.state
    THEN IF url.error # ""
           THEN Reconciled(url.state, "", url.error)
           ELSE Reconciled(url.state, url.code, "")
    ELSE Null

\* A dispatch that hands every request to the redirect handler.
routeAlwaysRedirect(kind) == "redirect"

\* AuthAdapter.completeAuthorizationRequestIfPossible: the handler the request
\* type stored under the pointer selects.
route(kind) ==
  CASE kind = "popup" -> "popup"
    [] kind = "iframe" -> "iframe"
    [] OTHER -> "redirect"

\* completeAuthorizationRequest of the selected handler.
complete(req, url) ==
  CASE route(req.kind) = "popup" -> completePopup(req, url)
    [] route(req.kind) = "iframe" -> completeIFrame(req, url)
    [] OTHER -> completeRedirect(req, url)

\* PopupWindow.notifyOpener / IFrameWindow.notifyOpener, called by the notifier
\* of handler h in a page running in a surface of kind k: the popup notifier
\* posts when the page has an opener, the iframe notifier when it has a parent.
notifyOpener(h, k, src, res) ==
  IF res.found /\ h = k
    THEN {[src |-> src, type |-> "authorization_response",
           code |-> IF res.hasResponse THEN res.code ELSE "",
           state |-> res.state, error |-> res.error]}
    ELSE {}

\* ---------------------------------------------------------------- adapter

\* refreshTokens() without its short-circuit: it posts whenever it has a
\* configuration and a refresh token.
refreshTokensAlwaysPosts(cfg, rt, atr, t) ==
  IF ~cfg THEN "noconfig"
  ELSE IF rt = "" THEN "norefresh"
  ELSE "post"

\* What refreshTokens() does in a given adapter state: reject without a
\* configuration, reject without a refresh token, resolve with the held access
\* token while it is valid under the default buffer, else post a refresh
\* request.
refreshTokens(cfg, rt, atr, t) ==
  IF ~cfg THEN "noconfig"
  ELSE IF rt = "" THEN "norefresh"
  ELSE IF atr.held /\ isValid(atr, DefaultBuffer, t) THEN "valid"
  ELSE "post"

\* The TokenRequest refreshTokens() builds.
RefreshRequest(s, rt) ==
  TokenRequest("refresh_token", s.redirectUri, "", rt, "")

\* The redirect_uri finishAuthorization puts in its TokenRequest.
FinishRedirectUri(s, popup) ==
  IF popup THEN s.popupRedirectUri ELSE s.redirectUri

\* The TokenRequest finishAuthorization builds.
FinishRequest(s, code, verifier, popup) ==
  TokenRequest("authorization_code", FinishRedirectUri(s, popup), code, "",
               verifier)

\* A POST handed to the requestor: cont names the continuation that waits for
\* the answer, flow the sign-in call it belongs to (0: none).
Post(id, req, cont, f) ==
  [id |-> id, body |-> performTokenRequest(req), cont |-> cont, flow |-> f]

\* The outcome of a call, as its caller sees it.
\* calls: the branches of a checkExpire() that called refreshTokens(), in order.
Outcome(op, result, value, posted, renewed) ==
  [op |-> op, result |-> result, value |-> value, posted |-> posted,
   renewed |-> renewed, calls |-> <<>>]

\* No notification yet.
NoEvent == [type |-> "none", to |-> <<>>, payload |-> NoResponse]

\* this._handlers.forEach((fn) => fn(EventType.RENEWED,
\* this._accessTokenResponse)): the handlers hs are called in order with atr.
Renewed(hs, atr) == [type |-> "RENEWED", to |-> hs, payload |-> atr]

\* signinCallback() was not called on this page.
NoCallback == [status |-> "none", timer |-> FALSE, reason |-> ""]

\* signinCallback() on a URL with callback parameters: the promise is pending
\* and the 2 s timer is armed.
PendingCallback == [status |-> "pending", timer |-> TRUE, reason |-> ""]

\* resolve() / reject(reason) of the promise of signinCallback(): a settled
\* promise stays as it is.
settleCallback(cb, how, reason) ==
  IF cb.status = "pending"
    THEN [cb EXCEPT !.status = how, !.reason = reason]
    ELSE cb

\* The lifetimes an identity provider may be configured with.
Lifetimes ==
  [expires_in : ExpiresInChoices, refresh_expires_in : RefreshExpiresInChoices]

\* JSON bodies the token endpoint may answer request id with: a fresh access
\* token with the provider's lifetimes, with or without a refresh token, or an
\* error.
TokenJsons(id) ==
  { [error |-> "", access_token |-> "at" \o ToString(id),
     refresh_token |-> rt, expires_in |-> idp.expires_in,
     refresh_expires_in |-> idp.refresh_expires_in] :
      rt \in {"", "rt" \o ToString(id)} }
  \cup
  { [error |-> "invalid_grant", access_token |-> "", refresh_token |-> "",
     expires_in |-> 0, refresh_expires_in |-> 0] }

\* An isExtendedTokenResponse that takes every body for a token response.
isExtendedTokenResponseAlways(json) == TRUE

\* isExtendedTokenResponse(json)
isExtendedTokenResponse(json) == json.error = ""

InitAdapter ==
  /\ configuration = FALSE
  /\ refreshToken = ""
  /\ accessTokenResponse = NoResponse
  /\ now = 0
  /\ ticks = 0
  /\ requests = {}
  /\ nreq = 0
  /\ last = Outcome("constructor", "resolved", "", 0, FALSE)
  /\ handlers = <<>>
  /\ event = NoEvent
  /\ navigated = "none"
  /\ callback = NoCallback

\* A fetchServiceConfiguration() that assigns the outcome of every fetch: a
\* failed fetch leaves the adapter without a configuration.
FetchServiceConfigurationAssignsFailure ==
  \E ok \in BOOLEAN :
    /\ configuration' = ok
    /\ UNCHANGED <<settings, idp, location, observerVars, refreshToken,
                   accessTokenResponse, now, ticks, requests, nreq, last,
                   flowVars, auth>>

\* fetchServiceConfiguration(): the metadata answer arrives (ok) or the fetch
\* fails.
FetchServiceConfiguration ==
  \E ok \in BOOLEAN :
    /\ configuration' = (ok \/ configuration)
    /\ UNCHANGED <<settings, idp, location, observerVars, refreshToken,
                   accessTokenResponse, now, ticks, requests, nreq, last,
                   flowVars, auth>>

\* The clock advances.
Tick ==
  \E d \in Steps :
    /\ ticks < MaxTicks
    /\ now' = now + d
    /\ ticks' = ticks + 1
    /\ UNCHANGED <<settings, idp, location, observerVars, configuration,
                   refreshToken, accessTokenResponse, requests, nreq, last,
                   flowVars, auth>>

\* A call of the public refreshTokens().
RefreshTokensCall ==
  LET d == refreshTokens(configuration, refreshToken, accessTokenResponse, now)
  IN /\ d = "post" => nreq < MaxRequests
     /\ requests' =
          IF d = "post"
            THEN requests \cup
                 {Post(nreq + 1, RefreshRequest(settings, refreshToken),
                       "user", 0)}
            ELSE requests
     /\ nreq' = IF d = "post" THEN nreq + 1 ELSE nreq
     /\ last' =
          CASE d = "noconfig" ->
                 Outcome("refreshTokens", "rejected",
                         "Unknown service configuration", 0, FALSE)
            [] d = "norefresh" ->
                 Outcome("refreshTokens", "rejected", "Missing refreshToken.",
                         0, FALSE)
            [] d = "valid" ->
                 Outcome("refreshTokens", "resolved",
                         accessTokenResponse.accessToken, 0, FALSE)
            [] OTHER ->
                 Outcome("refreshTokens", "pending", "", 1, FALSE)
     /\ UNCHANGED <<settings, idp, location, observerVars, configuration,
                    refreshToken, accessTokenResponse, now, ticks, flowVars,
                    auth>>

\* The redirect notifier's listener gets a response carrying a code: it calls
\* finishAuthorization(code, codeVerifier).
AuthorizationListener ==
  \E code \in {"c0"}, verifier \in {"", "v0"} :
    /\ configuration => nreq < MaxRequests
    /\ requests' =
         IF configuration
           THEN requests \cup
                {Post(nreq + 1, FinishRequest(settings, code, verifier, FALSE),
                      "finish", 0)}
           ELSE requests
    /\ nreq' = IF configuration THEN nreq + 1 ELSE nreq
    /\ last' =
         IF configuration
           THEN Outcome("finishAuthorization", "pending", "", 1, FALSE)
           ELSE Outcome("finishAuthorization", "rejected",
                        "Unknown service configuration", 0, FALSE)
    /\ UNCHANGED <<settings, idp, location, observerVars, configuration,
                   refreshToken, accessTokenResponse, now, ticks, flowVars,
                   auth>>

\* The token endpoint answers POST r: the requestor resolves with the JSON body
\* json (net), or it rejects.
\* The continuation that waited for it runs to its end.
\*   finish  : finishAuthorization stores the tokens, then the sign-in chain
\*             calls refreshTokens() and then notifies the handlers
\*   chain   : that refreshTokens() stores the tokens, the chain notifies
\*   monitor : refreshTokens() of checkExpire stores the tokens, then notifies
\*   user    : refreshTokens() called directly resolves with the access token
TokenAnswer(r, net, json) ==
  LET ok    == net /\ isExtendedTokenResponse(json)
      resp  == ExtendedOidcTokenResponse(json, now)
      d     == IF ok /\ r.cont = "finish"
                 THEN refreshTokens(configuration, resp.refreshToken,
                                    resp, now)
                 ELSE "none"
      why   == IF ~net THEN "network" ELSE json.error
  IN /\ net \/ json.error # ""
     /\ d = "post" => nreq < MaxRequests
     /\ refreshToken' = IF ok THEN resp.refreshToken ELSE refreshToken
     /\ accessTokenResponse' = IF ok THEN resp ELSE accessTokenResponse
     /\ requests' =
          (requests \ {r}) \cup
          (IF d = "post"
             THEN {Post(nreq + 1, RefreshRequest(settings,
                                                 resp.refreshToken),
                        "chain", r.flow)}
             ELSE {})
     /\ nreq' = IF d = "post" THEN nreq + 1 ELSE nreq
     /\ last' =
          CASE ~ok ->
                 Outcome(r.cont, "rejected", why, 0, FALSE)
            [] ok /\ r.cont = "finish" /\ d = "post" ->
                 Outcome(r.cont, "pending", "", 1, FALSE)
            [] ok /\ r.cont = "finish" /\ d = "norefresh" ->
                 Outcome(r.cont, "rejected", "Missing refreshToken.", 0,
                         FALSE)
            [] ok /\ r.cont = "user" ->
                 Outcome(r.cont, "resolved", resp.accessToken, 0, FALSE)
            [] OTHER ->
                 Outcome(r.cont, "resolved", resp.accessToken, 0, TRUE)
     /\ flows' =
          IF r.flow = 0 THEN flows
          ELSE [flows EXCEPT ![r.flow] =
                  CASE ~ok ->
                         [@ EXCEPT !.pc = "done", !.result = "rejected",
                                   !.reason = why]
                    [] ok /\ d = "post" ->
                         [@ EXCEPT !.pc = "refreshing"]
                    [] ok /\ d = "norefresh" ->
                         [@ EXCEPT !.pc = "done", !.result = "rejected",
                                   !.reason = "Missing refreshToken."]
                    [] OTHER ->
                         [@ EXCEPT !.pc = "done", !.result = "resolved"]]
     /\ event' =
          IF ok /\ \/ r.cont \in {"chain", "monitor"}
                   \/ r.cont = "finish" /\ d = "valid"
            THEN Renewed(handlers, resp)
            ELSE event
     /\ UNCHANGED <<settings, idp, location, handlers, navigated, callback,
                    configuration, now, ticks, nflow, wins, iframeField,
                    storage, msgs, auth>>

\* A token endpoint whose failures make the adapter forget its tokens: a
\* failed request clears the access-token response and the refresh token.
TokenEndpointRespondsForgetful ==
  \E r \in requests :
    \E net \in BOOLEAN, json \in TokenJsons(r.id) :
      IF net /\ isExtendedTokenResponse(json)
        THEN TokenAnswer(r, net, json)
        ELSE /\ refreshToken' = ""
             /\ accessTokenResponse' = NoResponse
             /\ requests' = requests \ {r}
             /\ last' = Outcome(r.cont, "rejected",
                                IF net THEN json.error ELSE "network", 0,
                                FALSE)
             /\ flows' =
                  IF r.flow = 0 THEN flows
                  ELSE [flows EXCEPT ![r.flow].pc = "done",
                                     ![r.flow].result = "rejected"]
             /\ UNCHANGED <<settings, idp, location, observerVars,
                            configuration, now, ticks, nreq, nflow, wins,
                            iframeField, storage, msgs, auth>>

\* A token-endpoint answer arrives for one of the POSTs in flight.
TokenEndpointResponds ==
  \E r \in requests :
    \E net \in BOOLEAN, json \in TokenJsons(r.id) : TokenAnswer(r, net, json)

\* A checkExpire() whose second test is skipped when the first has fired.
checkExpireOnce(atr, t) ==
  [access  |-> atr.held /\ ~isValid(atr, ExpireBuffer, t),
   refresh |-> /\ atr.held
               /\ isValid(atr, ExpireBuffer, t)
               /\ ~isRefreshValid(atr, DefaultBuffer, t)]

\* A checkExpire() that tests the access token under the default buffer.
checkExpireDefaultBuffer(atr, t) ==
  [access  |-> atr.held /\ ~isValid(atr, DefaultBuffer, t),
   refresh |-> atr.held /\ ~isRefreshValid(atr, DefaultBuffer, t)]

\* The two tests of checkExpire(): with a token held, is the access token
\* invalid under the -60 s buffer, and is the refresh token invalid under the
\* default buffer.
checkExpire(atr, t) ==
  [access  |-> atr.held /\ ~isValid(atr, ExpireBuffer, t),
   refresh |-> atr.held /\ ~isRefreshValid(atr, DefaultBuffer, t)]

\* checkExpire(): the interval timer's callback.  Each test that fires calls
\* refreshTokens(), and each of these calls notifies the handlers when it
\* resolves.
CheckExpire ==
  LET a == checkExpire(accessTokenResponse, now).access
      b == checkExpire(accessTokenResponse, now).refresh
      c == (IF a THEN <<"access">> ELSE <<>>) \o
           (IF b THEN <<"refresh">> ELSE <<>>)
      d == refreshTokens(configuration, refreshToken, accessTokenResponse, now)
      n == IF d = "post" THEN Len(c) ELSE 0
  IN /\ nreq + n <= MaxRequests
     /\ requests' =
          requests \cup
          { Post(nreq + i, RefreshRequest(settings, refreshToken),
                 "monitor", 0) : i \in 1..n }
     /\ nreq' = nreq + n
     /\ last' =
          [ (IF a \/ b
               THEN CASE d = "post" ->
                           Outcome("checkExpire", "pending", "", n, FALSE)
                      [] d = "valid" ->
                           Outcome("checkExpire", "resolved",
                                   accessTokenResponse.accessToken, 0, TRUE)
                      [] d = "noconfig" ->
                           Outcome("checkExpire", "rejected",
                                   "Unknown service configuration", 0, FALSE)
                      [] OTHER ->
                           Outcome("checkExpire", "rejected",
                                   "Missing refreshToken.", 0, FALSE)
               ELSE Outcome("checkExpire", "resolved", "", 0, FALSE))
            EXCEPT !.calls = c ]
     /\ event' = IF (a \/ b) /\ d = "valid"
                   THEN Renewed(handlers, accessTokenResponse)
                   ELSE event
     /\ UNCHANGED <<settings, idp, location, handlers, navigated, callback,
                    configuration, refreshToken, accessTokenResponse, now,
                    ticks, flowVars, auth>>

\* A signOut() that forgets the access-token response and keeps the refresh
\* token.
SignOutKeepsRefreshToken ==
  /\ accessTokenResponse' = NoResponse
  /\ last' = Outcome("signOut", "resolved", "", 0, FALSE)
  /\ UNCHANGED <<settings, idp, location, observerVars, configuration,
                 refreshToken, now, ticks, requests, nreq, flowVars, auth>>

\* A signOut() that forgets the refresh token and keeps the access-token
\* response.
SignOutKeepsResponse ==
  /\ refreshToken' = ""
  /\ last' = Outcome("signOut", "resolved", "", 0, FALSE)
  /\ UNCHANGED <<settings, idp, location, observerVars, configuration,
                 accessTokenResponse, now, ticks, requests, nreq, flowVars,
                 auth>>

\* signOut()
SignOut ==
  /\ accessTokenResponse' = NoResponse
  /\ refreshToken' = ""
  /\ last' = Outcome("signOut", "resolved", "", 0, FALSE)
  /\ UNCHANGED <<settings, idp, location, observerVars, configuration, now,
                 ticks, requests, nreq, flowVars, auth>>

\* signOutRedirect(args): the query of the end-session request is built and
\* dropped, the tokens are cleared; window.location is not touched.
SignOutRedirect ==
  /\ accessTokenResponse' = NoResponse
  /\ refreshToken' = ""
  /\ last' = Outcome("signOutRedirect", "resolved", "", 0, FALSE)
  /\ UNCHANGED <<settings, idp, location, observerVars, configuration, now,
                 ticks, requests, nreq, flowVars, auth>>

\* ------------------------------------------------------- handler registry

\* The functions the application may register.
HandlerIds == {"h1", "h2"}

\* addHandler(fn): this._handlers.push(fn)
addHandler(hs, fn) == Append(hs, fn)

\* A removeHandler that drops the handler registered last, whichever it is.
removeHandlerLast(hs, fn) ==
  IF hs = <<>> THEN hs ELSE SubSeq(hs, 1, Len(hs) - 1)

\* removeHandler(fnToRemove): this._handlers.filter((fn) => fn != fnToRemove)
removeHandler(hs, fn) ==
  LET keep(x) == x # fn IN SelectSeq(hs, keep)

AddHandler ==
  \E fn \in HandlerIds :
    /\ Len(handlers) < MaxHandlers
    /\ handlers' = addHandler(handlers, fn)
    /\ last' = Outcome("addHandler", "resolved", fn, 0, FALSE)
    /\ UNCHANGED <<settings, idp, location, event, navigated, callback,
                   adapterVars, clockVars, requests, nreq, flowVars, auth>>

RemoveHandler ==
  \E fn \in HandlerIds :
    /\ handlers' = removeHandler(handlers, fn)
    /\ last' = Outcome("removeHandler", "resolved", fn, 0, FALSE)
    /\ UNCHANGED <<settings, idp, location, event, navigated, callback,
                   adapterVars, clockVars, requests, nreq, flowVars, auth>>

\* ------------------------------------------------------------ sign-in flows

\* The flows whose window promise has settled with how, among the flows fl
\* that await a window of ws.
Settled(fl, ws, how) ==
  {f \in Flows : fl[f].pc = "awaiting" /\ ws[fl[f].win].promise = how}

\* An inner catch that wraps every rejection, an authorization error too.
iframeCatchWrapsAll(e) ==
  [e EXCEPT !.error = "",
            !.reason = "Invalid response from completeAuthorizationRequest: "
                       \o (IF e.error # "" THEN e.error ELSE e.reason)]

\* The inner catch of IFrameRequestHandler.performAuthorizationRequest: a
\* rejection with an error field (an authorization error) passes, any other is
\* wrapped in a new Error.
iframeCatch(e) ==
  IF e.error # "" THEN e
  ELSE [e EXCEPT
          !.reason = "Invalid response from completeAuthorizationRequest: "
                     \o e.reason]

\* The continuations of performAuthorizationRequest and of the sign-in call
\* that run once a window's promise has settled, for the flows fl, windows ws
\* and store st the step has produced so far.
\*   resolved, popup and iframe: the handler removes the three keys and returns
\*     {request, response, error: null}; the adapter calls
\*     finishAuthorization(response.code, code_verifier, true), which posts.
\*   rejected, popup: the rejection passes through the handler and the adapter
\*     to the caller; nothing is removed.
\*   rejected, iframe: the handler's inner catch wraps a reason that is not an
\*     AuthorizationError, its outer catch calls this._IFrame.abort() on the
\*     window its field names now and rejects; nothing is removed.
AfterSettle(fl, ws, st) ==
  LET R == Settled(fl, ws, "resolved")
      J == Settled(fl, ws, "rejected")
      aborts == iframeField # 0 /\ \E f \in J : fl[f].kind = "iframe"
      rank(f) == Cardinality({g \in R : g <= f})
  IN /\ nreq + Cardinality(R) <= MaxRequests
     /\ wins' = IF aborts THEN [ws EXCEPT ![iframeField] = abort(@)] ELSE ws
     /\ storage' = removeKeys(st, R)
     /\ requests' =
          requests \cup
          { Post(nreq + rank(f),
                 FinishRequest(settings, ws[fl[f].win].value.code,
                               fl[f].verifier, TRUE),
                 "finish", f) : f \in R }
     /\ nreq' = nreq + Cardinality(R)
     /\ flows' =
          [f \in Flows |->
             IF f \in R THEN [fl[f] EXCEPT !.pc = "exchanging"]
             ELSE IF f \in J
               THEN LET e == IF fl[f].kind = "iframe"
                               THEN iframeCatch(ws[fl[f].win].value)
                               ELSE ws[fl[f].win].value
                    IN [fl[f] EXCEPT !.pc = "done", !.result = "rejected",
                                     !.error = e.error, !.reason = e.reason]
             ELSE fl[f]]

\* signInRedirect(args): it resolves as soon as the handler has been called.
SignInRedirect ==
  /\ nflow < MaxFlows
  /\ IF configuration
       THEN /\ nflow' = nflow + 1
            /\ flows' = [flows EXCEPT ![nflow + 1] =
                           [AuthorizationRequest(nflow + 1, "redirect",
                                                 settings.redirectUri)
                              EXCEPT !.result = "resolved"]]
            /\ storage' = persistPointer(storage, nflow + 1)
            /\ last' = Outcome("signInRedirect", "resolved", "", 0, FALSE)
       ELSE /\ last' = Outcome("signInRedirect", "rejected",
                               "Missing configuration", 0, FALSE)
            /\ UNCHANGED <<flows, nflow, storage>>
  /\ UNCHANGED <<settings, idp, location, observerVars, adapterVars, clockVars,
                 requests, nreq, wins, iframeField, msgs, auth>>

\* A signInPopup that does not look at the configuration.
SignInPopupUnconfigured ==
  /\ nflow < MaxFlows
  /\ nflow' = nflow + 1
  /\ flows' = [flows EXCEPT ![nflow + 1] =
                 AuthorizationRequest(nflow + 1, "popup",
                                      PopupRedirectUri(settings))]
  /\ storage' = persistPointer(storage, nflow + 1)
  /\ last' = Outcome("signInPopup", "pending", "", 0, FALSE)
  /\ UNCHANGED <<settings, idp, location, observerVars, adapterVars, clockVars,
                 requests, nreq, wins, iframeField, msgs, auth>>

\* signInPopup(args)
SignInPopup ==
  /\ nflow < MaxFlows
  /\ IF configuration
       THEN /\ nflow' = nflow + 1
            /\ flows' = [flows EXCEPT ![nflow + 1] =
                           AuthorizationRequest(nflow + 1, "popup",
                                                PopupRedirectUri(settings))]
            /\ storage' = persistPointer(storage, nflow + 1)
            /\ last' = Outcome("signInPopup", "pending", "", 0, FALSE)
       ELSE /\ last' = Outcome("signInPopup", "rejected",
                               "Missing configuration", 0, FALSE)
            /\ UNCHANGED <<flows, nflow, storage>>
  /\ UNCHANGED <<settings, idp, location, observerVars, adapterVars, clockVars,
                 requests, nreq, wins, iframeField, msgs, auth>>

\* signInSilent(args): refreshTokens() when a refresh token is held, else
\* signInSilentIFrame(args), whose handler creates its IFrameWindow first.
SignInSilent ==
  LET d == refreshTokens(configuration, refreshToken, accessTokenResponse, now)
  IN
  IF refreshToken # ""
    THEN /\ d = "post" => nreq < MaxRequests
         /\ requests' =
              IF d = "post"
                THEN requests \cup
                     {Post(nreq + 1, RefreshRequest(settings, refreshToken),
                           "user", 0)}
                ELSE requests
         /\ nreq' = IF d = "post" THEN nreq + 1 ELSE nreq
         /\ last' =
              CASE d = "noconfig" ->
                     Outcome("signInSilent", "rejected",
                             "Unknown service configuration", 0, FALSE)
                [] d = "valid" ->
                     Outcome("signInSilent", "resolved",
                             accessTokenResponse.accessToken, 0, FALSE)
                [] OTHER ->
                     Outcome("signInSilent", "pending", "", 1, FALSE)
         /\ UNCHANGED <<settings, idp, location, observerVars, adapterVars,
                        clockVars, flowVars, auth>>
    ELSE /\ nflow < MaxFlows
         /\ IF configuration
              THEN /\ nflow' = nflow + 1
                   /\ flows' = [flows EXCEPT ![nflow + 1] =
                                  AuthorizationRequest(
                                    nflow + 1, "iframe",
                                    SilentRedirectUri(settings))]
                   /\ wins' = [wins EXCEPT ![nflow + 1] = IFrameWindow]
                   /\ iframeField' = nflow + 1
                   /\ storage' = persistPointer(storage, nflow + 1)
                   /\ last' = Outcome("signInSilent", "pending", "", 0, FALSE)
              ELSE /\ last' = Outcome("signInSilent", "rejected",
                                      "Missing configuration", 0, FALSE)
                   /\ UNCHANGED <<flows, nflow, wins, iframeField, storage>>
         /\ UNCHANGED <<settings, idp, location, observerVars, adapterVars,
                        clockVars, requests, nreq, msgs, auth>>

\* A handler that navigates as soon as request.toJson() has resolved, without
\* the request being written.
PersistedUnwritten(f) ==
  /\ flows[f].pc = "persisting"
  /\ flows[f].kind \in {"popup", "iframe"}
  /\ \E blocked \in BOOLEAN :
       LET w  == IF flows[f].kind = "popup" THEN f ELSE iframeField
           ws == [wins EXCEPT ![w] =
                    IF flows[f].kind = "popup"
                      THEN navigate(PopupWindow(blocked), f)
                      ELSE navigate(@, f)]
           fl == [flows EXCEPT ![f] = [toJsonResolved(@, f) EXCEPT
                                         !.pc = "awaiting", !.win = w]]
       IN /\ flows[f].kind = "iframe" => ~blocked
          /\ AfterSettle(fl, ws, storage)
  /\ UNCHANGED <<settings, idp, location, observerVars, adapterVars, clockVars,
                 last, nflow, iframeField, msgs, auth>>

\* request.toJson() of flow f has resolved: the request is written, and with
\* all three writes done the handler goes on.  The popup handler creates its
\* PopupWindow and navigates it; the iframe handler navigates the window its
\* field names now.  Both then wait for that window's promise.
Persisted(f) ==
  /\ flows[f].pc = "persisting"
  /\ flows[f].kind \in {"popup", "iframe"}
  /\ \E blocked \in BOOLEAN :
       LET w  == IF flows[f].kind = "popup" THEN f ELSE iframeField
           ws == [wins EXCEPT ![w] =
                    IF flows[f].kind = "popup"
                      THEN navigate(PopupWindow(blocked), f)
                      ELSE navigate(@, f)]
           fl == [flows EXCEPT ![f] = [toJsonResolved(@, f) EXCEPT
                                         !.pc = "awaiting", !.win = w]]
       IN /\ flows[f].kind = "iframe" => ~blocked
          /\ AfterSettle(fl, ws, persistRequest(storage, f))
  /\ UNCHANGED <<settings, idp, location, observerVars, adapterVars, clockVars,
                 last, nflow, iframeField, msgs, auth>>

\* What performAuthorizationRequest rejects with when storage.setItem has
\* thrown (a full or disabled localStorage): the popup handler passes the
\* exception on, the iframe handler wraps it.
storeFailure(kind) ==
  IF kind = "iframe"
    THEN "Failed to store OIDC request in local-storage: QuotaExceededError"
    ELSE "QuotaExceededError"

\* signInPopup(args) or signInSilentIFrame(args) where setItem throws for the
\* pointer or for the configuration: the other of the two is written,
\* Promise.all rejects and the sign-in rejects without a navigation.  The
\* iframe handler has created its IFrameWindow before and aborts it in its
\* catch blocks; the popup handler has created nothing.  request.toJson() is
\* still running and will write the request.
SignInStoreFails ==
  /\ nflow < MaxFlows
  /\ configuration
  /\ \E kind \in {"popup", "iframe"}, key \in {"pointer", "configuration"} :
       LET f == nflow + 1
           uri == IF kind = "popup" THEN PopupRedirectUri(settings)
                                    ELSE SilentRedirectUri(settings)
       IN /\ kind = "iframe" => refreshToken = ""
          /\ flows' = [flows EXCEPT ![f] =
                         [AuthorizationRequest(f, kind, uri)
                            EXCEPT !.pc = "orphaned", !.result = "rejected",
                                   !.reason = storeFailure(kind)]]
          /\ storage' = IF key = "pointer"
                          THEN [storage EXCEPT !.cfgs = @ \cup {f}]
                          ELSE [storage EXCEPT !.pointer = f]
          /\ wins' = IF kind = "iframe"
                       THEN [wins EXCEPT ![f] = abort(IFrameWindow)]
                       ELSE wins
          /\ iframeField' = IF kind = "iframe" THEN f ELSE iframeField
          /\ last' = Outcome(IF kind = "popup" THEN "signInPopup"
                                               ELSE "signInSilent",
                             "rejected", storeFailure(kind), 0, FALSE)
  /\ nflow' = nflow + 1
  /\ UNCHANGED <<settings, idp, location, observerVars, adapterVars, clockVars,
                 requests, nreq, msgs, auth>>

\* request.toJson() of a sign-in that has rejected already resolves: the
\* request is written, and nobody waits for it.
OrphanPersisted(f) ==
  /\ flows[f].pc = "orphaned"
  /\ flows' = [flows EXCEPT ![f].pc = "done"]
  /\ storage' = persistRequest(storage, f)
  /\ UNCHANGED <<settings, idp, location, observerVars, adapterVars, clockVars,
                 requests, nreq, last, nflow, wins, iframeField, msgs, auth>>

\* request.toJson() of flow f has resolved and setItem throws for the request:
\* Promise.all rejects, the then() that navigates is skipped and the sign-in
\* rejects; the iframe handler aborts the window its field names.
PersistFails(f) ==
  /\ flows[f].pc = "persisting"
  /\ flows[f].kind \in {"popup", "iframe"}
  /\ flows' = [flows EXCEPT ![f].pc = "done", ![f].result = "rejected",
                            ![f].reason = storeFailure(flows[f].kind)]
  /\ wins' = IF flows[f].kind = "iframe" /\ iframeField # 0
               THEN [wins EXCEPT ![iframeField] = abort(@)]
               ELSE wins
  /\ UNCHANGED <<settings, idp, location, observerVars, adapterVars, clockVars,
                 requests, nreq, last, nflow, iframeField, storage, msgs,
                 auth>>

\* request.toJson() of redirect flow f has resolved: the request is written and
\* the handler assigns the authorization URL to window.location.  The page and
\* everything it held in memory is gone; the identity provider sends the
\* browser to the redirect URI with url, and the page loaded there constructs
\* its own adapter.
PersistedRedirect(f) ==
  /\ flows[f].pc = "persisting"
  /\ flows[f].kind = "redirect"
  /\ \E code \in {"", "c" \o ToString(f)}, error \in {"", "access_denied"} :
       /\ code # "" \/ error # ""
       /\ location' = Url(flows[f].state, code, error)
  /\ storage' = persistRequest(storage, f)
  /\ flows' = [g \in Flows |->
                IF g = f
                  THEN [toJsonResolved(flows[g], g) EXCEPT !.pc = "returned"]
                ELSE IF flows[g].pc \in {"idle", "done"} THEN flows[g]
                ELSE [flows[g] EXCEPT !.pc = "unloaded"]]
  /\ configuration' = FALSE
  /\ refreshToken' = ""
  /\ accessTokenResponse' = NoResponse
  /\ requests' = {}
  /\ wins' = [w \in Flows |-> NoWindow]
  /\ iframeField' = 0
  /\ msgs' = {}
  /\ last' = Outcome("constructor", "resolved", "", 0, FALSE)
  /\ handlers' = <<>>
  /\ event' = NoEvent
  /\ navigated' = "authorize"
  /\ callback' = PendingCallback
  /\ UNCHANGED <<settings, idp, clockVars, nreq, nflow, auth>>

\* signinCallback() on the page redirect flow f came back to: the answer of its
\* fetchServiceConfiguration() arrives, and with a configuration the adapter's
\* completeAuthorizationRequestIfPossible() runs.  It reads the pointer and the
\* request under it and lets the selected handler reconcile the URL; the
\* redirect handler removes the three keys and notifies the listener of the
\* constructor, which calls finishAuthorization(code, codeVerifier) for a
\* response.  The page has no opener and no parent: the popup and the iframe
\* notifier post nothing.
\* The promise of signinCallback() rejects when the fetch fails and resolves
\* when the completion resolves, either one clearing the timer; a completion
\* that throws (a pointer with no request under it) is not chained to the
\* promise and leaves it to the timer.
SigninCallback(f) ==
  /\ flows[f].pc = "returned"
  /\ \E ok \in BOOLEAN :
       LET h   == storage.pointer
           res == IF ok /\ h # 0 /\ h \in storage.reqs
                    THEN complete(flows[h], location)
                    ELSE Null
           hd  == IF h # 0 THEN route(flows[h].kind) ELSE "none"
           threw == ok /\ h # 0 /\ h \notin storage.reqs
           fin == res.found /\ hd = "redirect"
           go  == fin /\ res.hasResponse
       IN /\ go => nreq < MaxRequests
          /\ configuration' = (ok \/ configuration)
          /\ storage' = IF fin THEN removeKeys(storage, {h}) ELSE storage
          /\ requests' =
               IF go
                 THEN requests \cup
                      {Post(nreq + 1,
                            FinishRequest(settings, res.code,
                                          flows[h].verifier, FALSE),
                            "finish", h)}
                 ELSE requests
          /\ nreq' = IF go THEN nreq + 1 ELSE nreq
          /\ flows' =
               [flows EXCEPT
                  ![f] = IF go /\ h = f
                           THEN [@ EXCEPT !.pc = "exchanging"]
                           ELSE [@ EXCEPT !.pc = "done",
                                          !.error = res.error,
                                          !.reason = IF ok THEN ""
                                                     ELSE "Login failed"]]
          /\ last' = Outcome("signinCallback",
                             CASE ~ok -> "rejected"
                               [] threw -> "pending"
                               [] OTHER -> "resolved",
                             "", IF go THEN 1 ELSE 0, FALSE)
          /\ callback' =
               CASE ~ok ->
                      [settleCallback(callback, "rejected", "Login failed")
                         EXCEPT !.timer = FALSE]
                 [] threw -> callback
                 [] OTHER ->
                      [settleCallback(callback, "resolved", "")
                         EXCEPT !.timer = FALSE]
  /\ UNCHANGED <<settings, idp, location, handlers, event, navigated,
                 refreshToken, accessTokenResponse, clockVars, nflow, wins,
                 iframeField, msgs, auth>>

\* A timer that is disarmed when it fires and rejects nothing.
SigninCallbackTimeoutSilent ==
  /\ callback.timer
  /\ callback' = [callback EXCEPT !.timer = FALSE]
  /\ UNCHANGED <<settings, idp, location, handlers, event, navigated,
                 adapterVars, clockVars, requests, nreq, last, flowVars, auth>>

\* The 2 s timer of signinCallback() fires: reject('waitForLogin timeout').
SigninCallbackTimeout ==
  /\ callback.timer
  /\ callback' = [settleCallback(callback, "rejected", "waitForLogin timeout")
                    EXCEPT !.timer = FALSE]
  /\ UNCHANGED <<settings, idp, location, handlers, event, navigated,
                 adapterVars, clockVars, requests, nreq, last, flowVars, auth>>

\* The digest of the verifier that the adapter's setupCodeVerifier()
\* generated for sign-in call f answers: that verifier is assigned to
\* internal.code_verifier of the request in memory and its challenge to the
\* extras.  The two digests of a request run in parallel; this one may answer
\* before the one toJson() waits for, or after it.
FirstDigest(f) ==
  /\ flows[f].first = "hashing"
  /\ flows[f].pc \in {"persisting", "awaiting"}
  /\ flows' = [flows EXCEPT ![f].first = "done",
                            ![f].verifier = FirstVerifier(f)]
  /\ UNCHANGED <<settings, idp, location, observerVars, adapterVars, clockVars,
                 requests, nreq, last, nflow, wins, iframeField, storage, msgs,
                 auth>>

\* The identity provider sends the surface of window w back to the redirect
\* URI with the state it was given and a code, an error, or both, and the page
\* loaded there calls completeAuthorizationRequestIfPossible() of its own
\* adapter: it reads the pointer and the request under it, lets the selected
\* handler reconcile the URL, and the handler's notifier posts the result to
\* the opener.  The redirect handler also removes the three keys when it
\* reconciles.
Callback(w, code, error) ==
  LET url == Url(flows[wins[w].at].state, code, error)
      h   == storage.pointer
      hd  == IF h # 0 THEN route(flows[h].kind) ELSE "none"
      res == IF h # 0 /\ h \in storage.reqs
               THEN complete(flows[h], url)
               ELSE Null
      pg  == [status |-> CASE h = 0 -> "nohandle"
                           [] h \notin storage.reqs -> "threw"
                           [] OTHER -> "done",
              handler |-> hd, res |-> res]
  IN /\ wins[w].surface = "open"
     /\ wins[w].at # 0
     /\ code # "" \/ error # ""
     /\ msgs' = msgs \cup notifyOpener(hd, wins[w].kind, w, res)
     /\ storage' = IF res.found /\ hd = "redirect"
                     THEN removeKeys(storage, {h})
                     ELSE storage
     /\ wins' = [wins EXCEPT ![w].at = 0, ![w].url = url, ![w].page = pg]
     /\ UNCHANGED <<settings, idp, location, observerVars, adapterVars,
                    clockVars, requests, nreq, last, flows, nflow, iframeField,
                    auth>>

\* The surface of window w comes back with a code, with login_required (what
\* a provider answers prompt=none without a session), or with both.
SurfaceCallback(w) ==
  \E code \in {"", "c" \o ToString(wins[w].at)},
     error \in {"", "login_required"} : Callback(w, code, error)

\* The surface of window w comes back with another error of the provider.
SurfaceCallbackDenied(w) == Callback(w, "", "access_denied")

\* A message event in the opener: every registered listener is called.
DeliverMessage ==
  \E m \in msgs :
    /\ msgs' = msgs \ {m}
    /\ AfterSettle(flows,
                   [w \in Flows |->
                      IF wins[w].listener \/ wins[w].staleListeners > 0
                        THEN listener(wins[w], w, m)
                        ELSE wins[w]],
                   storage)
    /\ UNCHANGED <<settings, idp, location, observerVars, adapterVars,
                   clockVars, last, nflow, iframeField, auth>>

\* The authorization timer of window w fires.
Timeout(w) ==
  /\ wins[w].timeout
  /\ AfterSettle(flows, [wins EXCEPT ![w] = timeoutFires(@)], storage)
  /\ UNCHANGED <<settings, idp, location, observerVars, adapterVars, clockVars,
                 last, nflow, iframeField, msgs, auth>>

\* A timer of an earlier navigate() on IFrameWindow w fires.
StaleTimeout(w) ==
  /\ wins[w].staleTimeouts > 0
  /\ AfterSettle(flows,
                 [wins EXCEPT ![w] =
                    timeoutFires([@ EXCEPT !.staleTimeouts = @ - 1])],
                 storage)
  /\ UNCHANGED <<settings, idp, location, observerVars, adapterVars, clockVars,
                 last, nflow, iframeField, msgs, auth>>

\* The popup-closed interval of window w fires and finds the popup gone.
PopupClosedPoll(w) ==
  /\ wins[w].poll
  /\ wins[w].surface # "open"
  /\ AfterSettle(flows, [wins EXCEPT ![w] = pollFindsClosed(@)], storage)
  /\ UNCHANGED <<settings, idp, location, observerVars, adapterVars, clockVars,
                 last, nflow, iframeField, msgs, auth>>

\* The user closes the popup of window w.
UserClosesPopup(w) ==
  /\ wins[w].kind = "popup"
  /\ wins[w].surface = "open"
  /\ wins' = [wins EXCEPT ![w].surface = "closed", ![w].at = 0]
  /\ UNCHANGED <<settings, idp, location, observerVars, adapterVars, clockVars,
                 requests, nreq, last, flows, nflow, iframeField, storage,
                 msgs, auth>>

\* -------------------------------------------------------------- auth slice

\* Number arithmetic on undefined gives NaN; timestamps are never negative.
NaN == -1

\* generateInitialState(): the optional token members are absent.
initialState ==
  [isLoading |-> FALSE, isAuthed |-> FALSE, isExpired |-> FALSE,
   access_token |-> "", access_token_expire |-> 0,
   refresh_token |-> "", refresh_token_expire |-> 0]

\* The store is created with the slice's initial state.
InitStore == auth = initialState

\* ExtendedOidcTokenResponse.toReduxState(): its tests compare with null, the
\* absent members are undefined, so it always resolves; the two timestamps are
\* computed from issuedAt and expiresIn.
toReduxState(resp) ==
  [access_token |-> resp.accessToken,
   access_token_expire |->
     IF resp.expiresIn = 0 THEN NaN
     ELSE (resp.issuedAt + resp.expiresIn) * 1000,
   refresh_token |-> resp.refreshToken,
   refresh_token_expire |->
     IF resp.expiresIn = 0 THEN NaN
     ELSE resp.issuedAt + resp.expiresIn * 1000]

\* _.merge(state, payload): every member of the payload that is not undefined
\* replaces the member of the state.
merge(state, payload) ==
  [state EXCEPT
     !.access_token = payload.access_token,
     !.access_token_expire = payload.access_token_expire,
     !.refresh_token =
       IF payload.refresh_token = "" THEN @ ELSE payload.refresh_token,
     !.refresh_token_expire = payload.refresh_token_expire]

\* The reducers of the slice.
expired(state) == [state EXCEPT !.isAuthed = FALSE, !.isExpired = TRUE]

loading(state) == [state EXCEPT !.isLoading = TRUE]

loaded(state) == [state EXCEPT !.isLoading = FALSE]

logged_out(state) == [state EXCEPT !.isAuthed = FALSE]

token_updated(state, payload) ==
  [merge(state, payload) EXCEPT !.isAuthed = TRUE, !.isLoading = FALSE]

\* dispatch(expired()), dispatch(loading()), dispatch(loaded()),
\* dispatch(logged_out()): by the provider or by the application, which
\* imports the action creators from the package.
DispatchExpired ==
  /\ auth' = expired(auth)
  /\ UNCHANGED <<settings, idp, location, observerVars, adapterVars,
                 clockVars, requests, nreq, last, flowVars>>

DispatchLoading ==
  /\ auth' = loading(auth)
  /\ UNCHANGED <<settings, idp, location, observerVars, adapterVars,
                 clockVars, requests, nreq, last, flowVars>>

DispatchLoaded ==
  /\ auth' = loaded(auth)
  /\ UNCHANGED <<settings, idp, location, observerVars, adapterVars,
                 clockVars, requests, nreq, last, flowVars>>

DispatchLoggedOut ==
  /\ auth' = logged_out(auth)
  /\ UNCHANGED <<settings, idp, location, observerVars, adapterVars,
                 clockVars, requests, nreq, last, flowVars>>

\* updateState(RENEWED, token_response), the handler the provider registers:
\* the adapter calls it with the response of the token endpoint, it dispatches
\* token_updated(await token_response.toReduxState()).  The reducer writes the
\* payload to localStorage; when setItem throws, the reducer throws and the
\* store keeps its state.
UpdateStateRenewed ==
  \E id \in 1..MaxRequests, stored \in BOOLEAN :
    \E json \in {j \in TokenJsons(id) : isExtendedTokenResponse(j)} :
      LET resp == ExtendedOidcTokenResponse(json, now)
      IN /\ event' = Renewed(handlers, resp)
         /\ auth' = IF stored
                      THEN token_updated(auth, toReduxState(resp))
                      ELSE auth
         /\ UNCHANGED <<settings, idp, location, handlers, navigated,
                        callback, adapterVars, clockVars, requests, nreq,
                        last, flowVars>>

\* ------------------------------------------------- token-lifecycle machine

InitFlows ==
  /\ flows = [f \in Flows |-> NoFlow]
  /\ nflow = 0
  /\ wins = [f \in Flows |-> NoWindow]
  /\ iframeField = 0
  /\ storage = EmptyStorage
  /\ msgs = {}
  /\ location = Url("", "", "")

InitToken ==
  /\ InitAdapter
  /\ InitFlows
  /\ InitStore
  /\ idp \in Lifetimes
  /\ settings = [redirectUri |-> "R", popupRedirectUri |-> "",
                 silentRedirectUri |-> ""]

NextToken ==
  \/ FetchServiceConfiguration
  \/ AuthorizationListener
  \/ TokenEndpointResponds
  \/ RefreshTokensCall
  \/ CheckExpire
  \/ Tick
  \/ SignOut

SpecToken == InitToken /\ [][NextToken]_vars

\* The token-lifecycle machine without the expiry monitor: the application
\* calls refreshTokens() as time passes.
NextRefresh ==
  \/ FetchServiceConfiguration
  \/ AuthorizationListener
  \/ TokenEndpointResponds
  \/ RefreshTokensCall
  \/ Tick
  \/ SignOut

SpecRefresh == InitToken /\ [][NextRefresh]_vars

\* The token-lifecycle machine with the expiry monitor alone: the application
\* signs in and leaves the refreshing to the monitor.
NextExpiry ==
  \/ FetchServiceConfiguration
  \/ AuthorizationListener
  \/ TokenEndpointResponds
  \/ CheckExpire
  \/ Tick

SpecExpiry == InitToken /\ [][NextExpiry]_vars

\* The token-lifecycle machine behind a provider whose access tokens live an
\* hour and whose refresh tokens live 30 minutes: a token is fresh when it
\* arrives, and either check of the monitor, or both, can fail later.
InitMonitor ==
  /\ InitAdapter
  /\ InitFlows
  /\ InitStore
  /\ idp = [expires_in |-> 3600, refresh_expires_in |-> 1800]
  /\ settings = [redirectUri |-> "R", popupRedirectUri |-> "",
                 silentRedirectUri |-> ""]

SpecMonitor == InitMonitor /\ [][NextToken]_vars

\* ------------------------------------------------------- sign-in machine

\* new AuthAdapter(settings): the redirect URI is always configured, the popup
\* and the silent redirect URI may be.
Init ==
  /\ InitAdapter
  /\ InitFlows
  /\ InitStore
  /\ idp \in Lifetimes
  /\ settings \in [redirectUri : {"R"}, popupRedirectUri : {"", "P"},
                    silentRedirectUri : {"", "S"}]

Next ==
  \/ FetchServiceConfiguration
  \/ SignInRedirect
  \/ SignInPopup
  \/ SignInSilent
  \/ \E f \in Flows : Persisted(f)
  \/ \E f \in Flows : PersistedRedirect(f)
  \/ \E f \in Flows : SigninCallback(f)
  \/ \E w \in Flows : SurfaceCallback(w)
  \/ DeliverMessage
  \/ \E w \in Flows : Timeout(w)
  \/ \E w \in Flows : StaleTimeout(w)
  \/ \E w \in Flows : PopupClosedPoll(w)
  \/ \E w \in Flows : UserClosesPopup(w)
  \/ TokenEndpointResponds

Spec == Init /\ [][Next]_vars

\* --------------------------------------------------------- transport machine

\* The sign-in machine up to the token request: the flows, their windows, the
\* store and the messages, with the POSTs of finishAuthorization left
\* unanswered.
\* ------------------------------------------------ redirect callback machine

\* Redirect sign-ins and the page they come back to, which calls
\* signinCallback(); a popup sign-in may have moved the pointer before the
\* page was left.
InitCallback ==
  /\ InitAdapter
  /\ InitFlows
  /\ InitStore
  /\ idp = [expires_in |-> 3600, refresh_expires_in |-> 86400]
  /\ settings = [redirectUri |-> "R", popupRedirectUri |-> "P",
                 silentRedirectUri |-> ""]

NextCallback ==
  \/ FetchServiceConfiguration
  \/ SignInRedirect
  \/ SignInPopup
  \/ \E f \in Flows : PersistedRedirect(f)
  \/ \E f \in Flows : SigninCallback(f)
  \/ SigninCallbackTimeout
  \/ TokenEndpointResponds

\* A timer that is armed fires.
SpecCallback ==
  InitCallback /\ [][NextCallback]_vars /\ WF_vars(SigninCallbackTimeout)

\* ----------------------------------------------------- silent sign-in machine

\* Silent sign-ins in an iframe, with a provider that answers with a code,
\* with login_required or with access_denied, or not at all.
InitSilent ==
  /\ InitAdapter
  /\ InitFlows
  /\ InitStore
  /\ idp = [expires_in |-> 3600, refresh_expires_in |-> 86400]
  /\ settings \in [redirectUri : {"R"}, popupRedirectUri : {""},
                    silentRedirectUri : {"", "S"}]

NextSilent ==
  \/ FetchServiceConfiguration
  \/ SignInSilent
  \/ \E f \in Flows : Persisted(f)
  \/ \E w \in Flows : SurfaceCallback(w)
  \/ \E w \in Flows : SurfaceCallbackDenied(w)
  \/ DeliverMessage
  \/ \E w \in Flows : Timeout(w)
  \/ \E w \in Flows : StaleTimeout(w)

SpecSilent == InitSilent /\ [][NextSilent]_vars

\* The silent sign-in machine where every timer that is armed fires.
SpecSilentFair ==
  /\ SpecSilent
  /\ \A w \in Flows : WF_vars(Timeout(w)) /\ WF_vars(StaleTimeout(w))

\* No transport step reads the provider's lifetimes: one provider is enough.
InitTransport ==
  /\ InitAdapter
  /\ InitFlows
  /\ InitStore
  /\ idp = [expires_in |-> 3600, refresh_expires_in |-> 86400]
  /\ settings \in [redirectUri : {"R"}, popupRedirectUri : {"", "P"},
                    silentRedirectUri : {"", "S"}]

NextTransport ==
  \/ FetchServiceConfiguration
  \/ SignInRedirect
  \/ SignInPopup
  \/ SignInSilent
  \/ \E f \in Flows : Persisted(f)
  \/ \E f \in Flows : PersistedRedirect(f)
  \/ \E f \in Flows : SigninCallback(f)
  \/ \E w \in Flows : SurfaceCallback(w)
  \/ DeliverMessage
  \/ \E w \in Flows : Timeout(w)
  \/ \E w \in Flows : StaleTimeout(w)
  \/ \E w \in Flows : PopupClosedPoll(w)
  \/ \E w \in Flows : UserClosesPopup(w)

SpecTransport == InitTransport /\ [][NextTransport]_vars

\* The token requests of the adapter and their answers, with the clock at
\* rest: code exchanges, the refresh of the sign-in chain, refreshTokens().
NextAnswer ==
  \/ FetchServiceConfiguration
  \/ AuthorizationListener
  \/ RefreshTokensCall
  \/ TokenEndpointResponds
  \/ SignOut

SpecAnswer == InitToken /\ [][NextAnswer]_vars

\* ---------------------------------------------------- notification machine

\* The adapter with an application that registers and removes handlers and
\* signs out, behind one provider; no sign-in transport runs.
InitNotify ==
  /\ InitAdapter
  /\ InitFlows
  /\ InitStore
  /\ idp = [expires_in |-> 3600, refresh_expires_in |-> 86400]
  /\ settings = [redirectUri |-> "R", popupRedirectUri |-> "",
                 silentRedirectUri |-> ""]

NextNotify ==
  \/ FetchServiceConfiguration
  \/ AuthorizationListener
  \/ TokenEndpointResponds
  \/ AddHandler
  \/ RemoveHandler
  \/ SignOut

SpecNotify == InitNotify /\ [][NextNotify]_vars

\* ---------------------------------------------------------- sign-out machine

\* The adapter with an application that registers handlers, starts redirect
\* sign-ins (which write the correlation store) and signs out either way.
NextSignOut ==
  \/ FetchServiceConfiguration
  \/ AuthorizationListener
  \/ TokenEndpointResponds
  \/ SignInRedirect
  \/ AddHandler
  \/ SignOut
  \/ SignOutRedirect

SpecSignOut == InitNotify /\ [][NextSignOut]_vars

\* The token-lifecycle machine where every answer of the token endpoint
\* arrives (fetch() settles) and the interval timer of the expiry monitor
\* keeps firing.
SpecTokenFair ==
  /\ SpecToken
  /\ WF_vars(TokenEndpointResponds)
  /\ WF_vars(CheckExpire)

\* ------------------------------------------------- transport window machine

\* The PopupWindow and IFrameWindow classes driven through their own
\* interface: constructor, navigate() once per object, abort(), and the
\* events they subscribe to (a message event, the authorization timer, the
\* popup-closed interval), with the user closing popups.  No sign-in call is
\* made, so no continuation of a handler waits for the windows.

\* The data of the message events a page may receive.
MessageData ==
  [src : {0}, type : {"authorization_response", "other"}, code : {"", "c"},
   state : {"s"}, error : {"", "login_required"}]

\* new PopupWindow(params) / new IFrameWindow(params)
NewWindow(w) ==
  /\ wins[w].kind = "none"
  /\ \E k \in {"popup", "iframe"}, blocked \in BOOLEAN :
       /\ k = "iframe" => ~blocked
       /\ wins' = [wins EXCEPT ![w] = IF k = "popup" THEN PopupWindow(blocked)
                                                    ELSE IFrameWindow]
  /\ UNCHANGED <<settings, idp, location, observerVars, adapterVars, clockVars,
                 requests, nreq, last, flows, nflow, iframeField, storage,
                 msgs, auth>>

\* The object w has been constructed and navigate() was not called on it.
Fresh(w) ==
  /\ wins[w].kind # "none"
  /\ wins[w].promise = "pending"
  /\ ~wins[w].listener /\ ~wins[w].timeout /\ ~wins[w].poll
  /\ wins[w].at = 0
  /\ wins[w].surface \in {"open", "null"}

\* navigate({url, id}) on a fresh object.
Navigate(w) ==
  /\ Fresh(w)
  /\ wins' = [wins EXCEPT ![w] = navigate(@, w)]
  /\ UNCHANGED <<settings, idp, location, observerVars, adapterVars, clockVars,
                 requests, nreq, last, flows, nflow, iframeField, storage,
                 msgs, auth>>

\* navigate() or navigate({}) on a fresh object.
NavigateNoUrl(w) ==
  /\ Fresh(w)
  /\ wins' = [wins EXCEPT ![w] = navigateNoUrl(@)]
  /\ UNCHANGED <<settings, idp, location, observerVars, adapterVars, clockVars,
                 requests, nreq, last, flows, nflow, iframeField, storage,
                 msgs, auth>>

\* abort() on an object that was constructed.
Abort(w) ==
  /\ wins[w].kind # "none"
  /\ wins' = [wins EXCEPT ![w] = abort(@)]
  /\ UNCHANGED <<settings, idp, location, observerVars, adapterVars, clockVars,
                 requests, nreq, last, flows, nflow, iframeField, storage,
                 msgs, auth>>

\* Some window posts a message to the page; one message is in transit at a
\* time.
PostMessage ==
  /\ msgs = {}
  /\ \E m \in MessageData : msgs' = {m}
  /\ UNCHANGED <<settings, idp, location, observerVars, adapterVars, clockVars,
                 requests, nreq, last, flows, nflow, wins, iframeField,
                 storage, auth>>

NextWindow ==
  \/ \E w \in Flows : NewWindow(w)
  \/ \E w \in Flows : Navigate(w)
  \/ \E w \in Flows : NavigateNoUrl(w)
  \/ \E w \in Flows : Abort(w)
  \/ PostMessage
  \/ DeliverMessage
  \/ \E w \in Flows : Timeout(w)
  \/ \E w \in Flows : PopupClosedPoll(w)
  \/ \E w \in Flows : UserClosesPopup(w)

SpecWindow == InitCallback /\ [][NextWindow]_vars

\* --------------------------------------------------------- dispatch machine

\* The three kinds of sign-in and the pages their surfaces come back to, with
\* the messages these pages post; no timer fires and nobody closes a popup.
NextDispatch ==
  \/ FetchServiceConfiguration
  \/ SignInRedirect
  \/ SignInPopup
  \/ SignInSilent
  \/ \E f \in Flows : Persisted(f)
  \/ \E f \in Flows : PersistedRedirect(f)
  \/ \E f \in Flows : SigninCallback(f)
  \/ \E w \in Flows : SurfaceCallback(w)
  \/ DeliverMessage

SpecDispatch == InitCallback /\ [][NextDispatch]_vars

\* ------------------------------------------------------ persistence machine

\* Popup and silent sign-ins on a store whose writes may fail, with the
\* surfaces coming back, their messages and the authorization timer.
NextPersist ==
  \/ FetchServiceConfiguration
  \/ SignInPopup
  \/ SignInSilent
  \/ SignInStoreFails
  \/ \E f \in Flows : Persisted(f)
  \/ \E f \in Flows : PersistFails(f)
  \/ \E f \in Flows : OrphanPersisted(f)
  \/ \E w \in Flows : SurfaceCallback(w)
  \/ DeliverMessage
  \/ \E w \in Flows : Timeout(w)

SpecPersist == InitCallback /\ [][NextPersist]_vars

\* ------------------------------------------------------------ PKCE machine

\* Popup and redirect sign-ins with the two digests of each request, up to the
\* code exchange each of them posts.
NextPkce ==
  \/ FetchServiceConfiguration
  \/ SignInRedirect
  \/ SignInPopup
  \/ \E f \in Flows : FirstDigest(f)
  \/ \E f \in Flows : Persisted(f)
  \/ \E f \in Flows : PersistedRedirect(f)
  \/ \E f \in Flows : SigninCallback(f)
  \/ \E w \in Flows : SurfaceCallback(w)
  \/ DeliverMessage

SpecPkce == InitCallback /\ [][NextPkce]_vars

\* ================================================================== claims

\* C1: every token request with grant_type=refresh_token that
\* performTokenRequest sends has a form body without a redirect_uri field.
C1_RefreshBodyOmitsRedirectUri ==
  \A r \in requests :
    r.body["grant_type"] = "refresh_token" => "redirect_uri" \notin DOMAIN r.body

\* Has the handler of flow f settled its promise to the adapter?
HandlerSettled(f) ==
  /\ flows[f].kind \in {"popup", "iframe"}
  /\ flows[f].pc \in {"exchanging", "refreshing", "done"}

\* Is one of the three keys of flow f in the store?
KeysHeld(st, f) ==
  st.pointer = f \/ f \in st.reqs \/ f \in st.cfgs

\* C2: in every flow, the redirect_uri of the authorization-code token request
\* built by finishAuthorization equals the redirect_uri of that flow's
\* authorization request.
C2_TokenRedirectUriMatches ==
  \A r \in requests :
    (r.body["grant_type"] = "authorization_code" /\ r.flow # 0)
      => /\ "redirect_uri" \in DOMAIN r.body
         /\ r.body["redirect_uri"] = flows[r.flow].redirect_uri

\* C3: the promise of a PopupWindow or IFrameWindow settles at most once: once
\* it is settled, no message, timer or poll changes how it settled or what it
\* settled with.
C3_SettlesOnce ==
  [][ \A w \in Flows :
        (wins[w].promise # "pending" /\ wins'[w].kind = wins[w].kind)
          => /\ wins'[w].promise = wins[w].promise
             /\ wins'[w].value = wins[w].value ]_vars

\* A popup window that resolved by a message and whose authorization timer,
\* which the listener leaves armed, has fired since.
C3_Witness ==
  \E w \in Flows :
    /\ wins[w].kind = "popup"
    /\ wins[w].promise = "resolved"
    /\ ~wins[w].timeout

\* C4: a window's listener settles the promise only on a message posted by the
\* window's own surface.
C4_OwnSurfaceOnly ==
  [][ \A w \in Flows :
        (DeliverMessage /\ wins[w].promise = "pending"
           /\ wins'[w].promise # "pending")
          => \A m \in msgs \ msgs' : m.src = w ]_vars

\* C5: once the handler of a popup or iframe flow has settled to its caller,
\* none of the flow's three keys is in the store.
C5_KeysRemovedOnSettlement ==
  \A f \in Flows : HandlerSettled(f) => ~KeysHeld(storage, f)

\* C6: a callback URL with the state of the persisted popup or iframe request
\* and a code reconciles to a response with that state and code, and once the
\* response has been delivered to the opener the flow's keys are gone.
C6_StateRoundTrip ==
  [][ /\ \A w \in Flows :
           LET h == storage.pointer
               u == wins'[w].url
           IN (SurfaceCallback(w) /\ h # 0 /\ h \in storage.reqs
                 /\ flows[h].kind \in {"popup", "iframe"}
                 /\ u.state = flows[h].state /\ u.code # "" /\ u.error = "")
                => wins'[w].page.res = Reconciled(u.state, u.code, "")
      /\ DeliverMessage =>
           \A m \in msgs \ msgs' :
             m.code # "" =>
               \A f \in Flows :
                 (flows[f].state = m.state /\ flows[f].kind \in {"popup", "iframe"})
                   => ~KeysHeld(storage', f) ]_vars

\* C7: when the state of the callback URL differs from the state of the
\* request under the pointer, completeAuthorizationRequest of the popup and of
\* the iframe handler resolves to null, nothing is posted, and the store is
\* left as it was.
C7_StateMismatch ==
  [][ \A w \in Flows :
        LET h == storage.pointer
        IN (SurfaceCallback(w) /\ h # 0 /\ h \in storage.reqs
              /\ flows[h].kind \in {"popup", "iframe"}
              /\ wins'[w].url.state # flows[h].state)
             => /\ wins'[w].page.res = Null
                /\ msgs' = msgs
                /\ storage' = storage ]_vars

\* A surface whose page reconciled against the request of another flow.
C7_Witness ==
  \E w \in Flows :
    /\ wins[w].page.status = "done"
    /\ wins[w].page.handler \in {"popup", "iframe"}
    /\ wins[w].url.code # ""
    /\ storage.pointer # 0
    /\ wins[w].url.state # flows[storage.pointer].state
    /\ ~wins[w].page.res.found

\* C8: for a callback URL with the state of the persisted request, the popup
\* and the iframe handler give an error and no response when the URL has an
\* error, and a response and no error when it has a code and no error.
C8_ErrorOrResponse ==
  [][ \A w \in Flows :
        LET h == storage.pointer
            u == wins'[w].url
            r == wins'[w].page.res
        IN (SurfaceCallback(w) /\ h # 0 /\ h \in storage.reqs
              /\ flows[h].kind \in {"popup", "iframe"}
              /\ u.state = flows[h].state)
             => /\ u.error # "" =>
                     (r.found /\ ~r.hasResponse /\ r.error = u.error)
                /\ (u.error = "" /\ u.code # "") =>
                     (r.found /\ r.hasResponse /\ r.error = ""
                        /\ r.code = u.code) ]_vars

\* C9: signInRedirect, signInPopup and the iframe variant of signInSilent,
\* called without a configuration, reject with 'Missing configuration', write
\* nothing to the store and create no window.
C9_MissingConfiguration ==
  [][ ((SignInRedirect \/ SignInPopup \/ (SignInSilent /\ refreshToken = ""))
         /\ ~configuration)
      => /\ last'.result = "rejected"
         /\ last'.value = "Missing configuration"
         /\ storage' = storage
         /\ wins' = wins
         /\ flows' = flows
         /\ iframeField' = iframeField ]_vars

\* A sign-in call has just been rejected for want of a configuration.
C9_Witness ==
  /\ last.op \in {"signInRedirect", "signInPopup", "signInSilent"}
  /\ last.result = "rejected"
  /\ last.value = "Missing configuration"
  /\ ~configuration


ExchangeSucceeded ==
  /\ last.op = "finish"
  /\ \/ last.result \in {"pending", "resolved"}
     \/ last.value = "Missing refreshToken."

\* The handlers registered now were the ones called by the last notification,
\* which was RENEWED and carried the token response the adapter holds now.
HandlersRenewed ==
  /\ event.type = "RENEWED"
  /\ event.to = handlers
  /\ event.payload = accessTokenResponse

\* C11: after every successful authorization-code exchange the adapter calls
\* refreshTokens(), and then every registered handler is eventually notified
\* with RENEWED carrying the adapter's current token response.  (A sign-out
\* that drops the tokens before the notification is not held against the
\* claim.)
C11_RenewedAfterExchange ==
  ExchangeSucceeded ~> (HandlersRenewed \/ ~accessTokenResponse.held)

\* The held access token has expired and the adapter has nothing to renew it
\* with: no refresh token, or one that has expired too.
Unrenewable ==
  /\ accessTokenResponse.held
  /\ ~isValid(accessTokenResponse, 0, now)
  /\ \/ refreshToken = ""
     \/ ~isRefreshValid(accessTokenResponse, 0, now)

\* C12: when the held token or refresh token is no longer valid and cannot be
\* renewed, the adapter eventually delivers an EXPIRED event to every
\* registered handler.  (A sign-out that drops the tokens first is not held
\* against the claim.)
C12_ExpiredDelivered ==
  Unrenewable ~> (\/ event.type = "EXPIRED" /\ event.to = handlers
                  \/ ~accessTokenResponse.held)

\* C13: on a tick of the expiry monitor, with no token held refreshTokens() is
\* not called; with a token held it is called once iff the access token is
\* invalid under a buffer of -60 s, and once more iff the refresh token is
\* invalid under a buffer of -600 s.  With expires_in = 3600 and
\* refresh_expires_in = 86400, a tick 3541 s after issue makes the
\* access-token call only.
C13_MonitorBranches ==
  [][ CheckExpire =>
        LET atr     == accessTokenResponse
            access  == /\ atr.held
                       /\ atr.expiresIn # 0
                       /\ now >= atr.issuedAt + atr.expiresIn - 60
            refresh == /\ atr.held
                       /\ atr.refreshExpiresIn # 0
                       /\ now >= atr.issuedAt + atr.refreshExpiresIn - 600
        IN /\ last'.op = "checkExpire"
           /\ last'.calls = (IF access THEN <<"access">> ELSE <<>>) \o
                            (IF refresh THEN <<"refresh">> ELSE <<>>)
           /\ (/\ atr.held
               /\ atr.expiresIn = 3600
               /\ atr.refreshExpiresIn = 86400
               /\ now = atr.issuedAt + 3541) => last'.calls = <<"access">>
    ]_vars

\* C13 witness: the monitor ticked 3541 s after the issue of a token with
\* expires_in = 3600 and refresh_expires_in = 86400, and made the access-token
\* call only.
C13_Witness ==
  /\ last.op = "checkExpire"
  /\ last.calls = <<"access">>
  /\ accessTokenResponse.held
  /\ accessTokenResponse.expiresIn = 3600
  /\ accessTokenResponse.refreshExpiresIn = 86400
  /\ now = accessTokenResponse.issuedAt + 3541

\* C14: signOut() clears the held access-token response and the held refresh
\* token and issues no request to the network; the configuration, the handler
\* list, the correlation store and every other part of the adapter's state
\* stay as they were.
C14_SignOutFrame ==
  [][ SignOut =>
        /\ accessTokenResponse' = NoResponse
        /\ refreshToken' = ""
        /\ requests' = requests
        /\ nreq' = nreq
        /\ configuration' = configuration
        /\ settings' = settings
        /\ handlers' = handlers
        /\ storage' = storage
        /\ flows' = flows
        /\ event' = event
        /\ navigated' = navigated
    ]_vars

\* C14 witness: signOut() ran on an adapter that had a configuration, had held
\* tokens and told a handler so, had a pointer in the correlation store and a
\* token request in flight; the tokens are gone.
C14_Witness ==
  /\ last.op = "signOut"
  /\ ~accessTokenResponse.held
  /\ refreshToken = ""
  /\ configuration
  /\ handlers # <<>>
  /\ event.type = "RENEWED"
  /\ event.payload.held
  /\ event.payload.refreshToken # ""
  /\ storage.pointer # 0
  /\ requests # {}

\* C15: signOutRedirect() clears the held access-token response and refresh
\* token and navigates the current window to the end-session endpoint of the
\* identity provider, with no other request to the network.
C15_SignOutRedirectNavigates ==
  [][ SignOutRedirect =>
        /\ accessTokenResponse' = NoResponse
        /\ refreshToken' = ""
        /\ navigated' = "end_session"
        /\ requests' = requests
        /\ nreq' = nreq
    ]_vars

\* performAuthorizationRequest of popup or iframe flow f has not settled.
InFlight(f) ==
  /\ flows[f].kind \in {"popup", "iframe"}
  /\ flows[f].pc \in {"persisting", "awaiting"}

\* C16: with two overlapping performAuthorizationRequest calls on one storage
\* namespace the pointer names the second call; completing the callback of the
\* first flow then resolves to null and notifies nobody, and completing the
\* callback of the second flow (one that carries a code) reconciles it with
\* the second request and posts the second flow's response.
C16_OverlappingFlows ==
  [][ \A w \in Flows : \A g \in Flows :
        ( /\ SurfaceCallback(w)
          /\ g # wins[w].at
          /\ InFlight(wins[w].at)
          /\ InFlight(g)
          /\ storage.pointer = (IF g > wins[w].at THEN g ELSE wins[w].at) )
        => IF wins[w].at < g
             THEN /\ wins'[w].page.status = "done"
                  /\ wins'[w].page.res = Null
                  /\ msgs' = msgs
             ELSE (wins'[w].url.code # "" /\ wins'[w].url.error = "")
                  => /\ wins'[w].page.status = "done"
                     /\ wins'[w].page.res =
                          Reconciled(flows[wins[w].at].state,
                                     wins'[w].url.code, "")
                     /\ msgs' # msgs
    ]_vars

\* The sequence hs with every occurrence of fn deleted.
RECURSIVE Without(_, _)
Without(hs, fn) ==
  IF hs = <<>> THEN <<>>
  ELSE IF Head(hs) = fn THEN Without(Tail(hs), fn)
  ELSE <<Head(hs)>> \o Without(Tail(hs), fn)

\* C17: addHandler(fn) registers fn behind the handlers registered before;
\* removeHandler(fn) removes fn and leaves every other handler and their order
\* unchanged; nothing else changes the registry of a page; and a notification
\* is RENEWED with the held token response, delivered to exactly the handlers
\* registered at that moment, in registration order.
C17_HandlerRegistry ==
  [][ /\ \A fn \in HandlerIds :
           /\ (AddHandler /\ last'.value = fn)
                => handlers' = handlers \o <<fn>>
           /\ (RemoveHandler /\ last'.value = fn)
                => handlers' = Without(handlers, fn)
      /\ ~(AddHandler \/ RemoveHandler) => handlers' = handlers
      /\ event' # event
           => /\ event'.type = "RENEWED"
              /\ event'.to = handlers
              /\ event'.payload = accessTokenResponse'
    ]_vars

\* C17 witness: h1 and h2 were registered in this order and notified in this
\* order, and then removeHandler(h1) left h2.
C17_Witness ==
  /\ event.type = "RENEWED"
  /\ event.to = <<"h1", "h2">>
  /\ last.op = "removeHandler"
  /\ last.value = "h1"
  /\ handlers = <<"h2">>

\* C18: when the token endpoint's JSON reaches performTokenRequest, the
\* request resolves with the extended token response made from it iff the JSON
\* has no error field; otherwise it rejects with the error code of the JSON.
\* A rejected request, by the JSON or by the requestor, is not posted again.
C18_TokenResponseDiscrimination ==
  [][ \A r \in requests \ requests' :
        \A net \in BOOLEAN : \A json \in TokenJsons(r.id) :
          TokenAnswer(r, net, json) =>
            IF net /\ json.error = ""
              THEN /\ accessTokenResponse' = ExtendedOidcTokenResponse(json, now)
                   /\ refreshToken' = json.refresh_token
              ELSE /\ last'.op = r.cont
                   /\ last'.result = "rejected"
                   /\ last'.value = (IF net THEN json.error ELSE "network")
                   /\ accessTokenResponse' = accessTokenResponse
                   /\ refreshToken' = refreshToken
                   /\ requests' = requests \ {r}
                   /\ nreq' = nreq
    ]_vars

\* C18 witness: a refresh request was answered with an error JSON and rejected
\* with its code, while the adapter keeps the tokens it held.
C18_Witness ==
  /\ last.op \in {"user", "monitor", "chain"}
  /\ last.result = "rejected"
  /\ last.value = "invalid_grant"
  /\ accessTokenResponse.held

\* Silent sign-in f waits for its iframe, whose listener is registered.
Listening(f) ==
  /\ flows[f].kind = "iframe"
  /\ flows[f].pc = "awaiting"
  /\ \/ wins[flows[f].win].listener
     \/ wins[flows[f].win].staleListeners > 0

C20_CallbackSettles ==
  /\ [][ /\ ( /\ callback.status \in {"resolved", "rejected"}
               /\ ~(\E f \in Flows : PersistedRedirect(f)) )
             => /\ callback'.status = callback.status
                /\ callback'.reason = callback.reason
         /\ \A f \in Flows :
              ( /\ SigninCallback(f)
                /\ callback.status = "pending"
                /\ last'.result = "resolved" )
              => callback' = [status |-> "resolved", timer |-> FALSE,
                              reason |-> ""]
         /\ (callback.status = "pending" /\ callback'.status = "resolved")
             => /\ \E f \in Flows : SigninCallback(f)
                /\ configuration'
                /\ last'.result = "resolved"
         /\ (callback.status = "pending" /\ SigninCallbackTimeout)
             => callback' = [status |-> "rejected", timer |-> FALSE,
                             reason |-> "waitForLogin timeout"]
         /\ callback.status = "pending" => callback.timer
       ]_vars
  /\ (callback.status = "pending")
       ~> (callback.status \in {"resolved", "rejected"})

\* C20 witness: the configuration arrived, the completion threw on a pointer
\* with no request under it, and the timer rejected the promise.
C20_Witness ==
  /\ last.op = "signinCallback"
  /\ last.result = "pending"
  /\ configuration
  /\ callback = [status |-> "rejected", timer |-> FALSE,
                 reason |-> "waitForLogin timeout"]

\* The answer of the token endpoint to POST r is a failure of the code
\* exchange of a sign-in, or of the refresh chained behind it.
ExchangeFailed(r) ==
  /\ r \in requests \ requests'
  /\ r.cont \in {"finish", "chain"}
  /\ r.flow # 0
  /\ last'.op = r.cont
  /\ last'.result = "rejected"

\* C21: every failure inside an adapter operation surfaces as a rejected
\* promise to the immediate caller: when the code exchange that
\* completeAuthorizationRequestIfPossible() triggered for a redirect sign-in
\* fails, the promise of the caller, signinCallback(), is not resolved; when
\* the exchange of a popup or iframe sign-in fails, the sign-in call rejects.
C21_FailuresSurface ==
  [][ \A r \in requests :
        ExchangeFailed(r) =>
          IF flows[r.flow].kind = "redirect"
            THEN callback'.status # "resolved"
            ELSE flows'[r.flow].result = "rejected"
    ]_vars

\* C22: the authorization-code token request of a sign-in carries the code
\* verifier whose challenge was sent in that sign-in's authorization URL, and
\* one verifier is generated per request, never a second one.
C22_PkceVerifierMatches ==
  /\ \A r \in requests :
       (r.flow # 0 /\ r.body.grant_type = "authorization_code")
         => /\ "code_verifier" \in DOMAIN r.body
            /\ deriveChallenge(r.body.code_verifier)
                 = flows[r.flow].challenge
  /\ \A f \in Flows : flows[f].generated <= 1

\* C23: navigate() with no url on a constructed transport window rejects the
\* window's promise with a 'no url provided' error, starts no timer and no
\* listener, and leaves no surface open.
C23_NoUrlLeavesNothing ==
  [][ \A w \in Flows :
        (NavigateNoUrl(w) /\ wins[w].surface = "open")
          => /\ wins'[w].promise = "rejected"
             /\ wins'[w].value.reason
                  = "PopupWindow.navigate: no url provided"
             /\ ~wins'[w].timeout /\ ~wins'[w].poll /\ ~wins'[w].listener
             /\ wins'[w].surface # "open"
    ]_vars

\* C24: abort() on a transport window after navigate() and before settlement
\* cancels all of the window's timers and its message listener and discards
\* the surface without settling the promise; and a pending promise is settled
\* only by navigate() or by a timer or listener that is still armed, so after
\* abort() it is never settled.
C24_AbortCancels ==
  [][ \A w \in Flows :
        /\ ( /\ Abort(w)
             /\ wins[w].promise = "pending"
             /\ wins[w].listener )
           => /\ ~wins'[w].timeout /\ ~wins'[w].poll /\ ~wins'[w].listener
              /\ wins'[w].staleTimeouts = 0 /\ wins'[w].staleListeners = 0
              /\ wins'[w].surface = "null"
              /\ wins'[w].promise = "pending"
        /\ (wins[w].promise = "pending" /\ wins'[w].promise # "pending")
           => \/ Navigate(w) \/ NavigateNoUrl(w)
              \/ wins[w].timeout \/ wins[w].poll \/ wins[w].listener
    ]_vars

\* C25: completeAuthorizationRequestIfPossible() of the adapter hands the
\* completion to the handler that the request_type of the request stored under
\* the current-request pointer names: 'popup' the popup handler, 'iframe' the
\* iframe handler, 'redirect' or no tag the redirect handler; with no pointer
\* in the store it calls no handler, posts nothing and removes nothing.
C25_RoutesByRequestType ==
  [][ /\ \A k \in {"", "redirect"} : route(k) = "redirect"
      /\ \A w \in Flows :
           SurfaceCallback(w) =>
             LET h   == storage.pointer
                 pg  == wins'[w].page
                 url == wins'[w].url
             IN IF h = 0
                  THEN /\ pg.status = "nohandle"
                       /\ pg.handler = "none"
                       /\ pg.res = Null
                       /\ msgs' = msgs
                       /\ storage' = storage
                  ELSE h \in storage.reqs =>
                         /\ pg.status = "done"
                         /\ CASE flows[h].kind = "popup" ->
                                   /\ pg.handler = "popup"
                                   /\ pg.res = completePopup(flows[h], url)
                              [] flows[h].kind = "iframe" ->
                                   /\ pg.handler = "iframe"
                                   /\ pg.res = completeIFrame(flows[h], url)
                              [] OTHER ->
                                   /\ pg.handler = "redirect"
                                   /\ pg.res = completeRedirect(flows[h], url)
      /\ \A f \in Flows :
           (SigninCallback(f) /\ last'.result # "rejected") =>
             LET h   == storage.pointer
                 res == completeRedirect(flows[h], location)
             IN IF h = 0
                  THEN storage' = storage /\ requests' = requests
                  ELSE h \in storage.reqs =>
                         IF flows[h].kind = "redirect"
                           THEN /\ storage' = IF res.found
                                                THEN removeKeys(storage, {h})
                                                ELSE storage
                                /\ (requests' # requests) = res.hasResponse
                           ELSE storage' = storage /\ requests' = requests
    ]_vars

\* C25 witness: one surface came back to a popup request and was handled by
\* the popup handler, another came back when the pointer was gone.
C25_Witness ==
  \E w, v \in Flows :
    /\ wins[w].page.status = "done"
    /\ wins[w].page.handler = "popup"
    /\ wins[w].page.res.found
    /\ wins[v].page.status = "nohandle"

\* C26: when the promise of a navigated transport window is settled by the
\* first of its triggers (message, authorization timer, popup-closed poll),
\* none of the window's timers or listeners remains armed; and on a settled
\* window no timer fires any more, so that cleanup() does not run again.
C26_FirstSettlementDisarms ==
  [][ \A w \in Flows :
        /\ ( /\ wins[w].promise = "pending"
             /\ wins[w].listener
             /\ wins'[w].promise # "pending" )
           => /\ ~wins'[w].timeout
              /\ ~wins'[w].poll
              /\ ~wins'[w].listener
        /\ wins[w].promise # "pending"
           => ~Timeout(w) /\ ~PopupClosedPoll(w)
    ]_vars

\* C27: a message of type authorization_response delivered to a transport
\* window whose listener is registered resolves the window's promise with the
\* message's response if it has one, else rejects it with the message's error
\* if it has one, else rejects it with the 'both empty' error; a message of
\* any other type leaves the window as it was.
C27_MessageOutcome ==
  [][ \A w \in Flows, m \in msgs :
        ( /\ DeliverMessage
          /\ m \notin msgs'
          /\ wins[w].listener
          /\ wins[w].promise = "pending" )
        => CASE m.type # "authorization_response" ->
                  wins'[w] = wins[w]
             [] m.type = "authorization_response" /\ m.code # "" ->
                  /\ wins'[w].promise = "resolved"
                  /\ wins'[w].value = Value(m.code, m.state, "", "")
             [] m.type = "authorization_response" /\ m.code = ""
                  /\ m.error # "" ->
                  /\ wins'[w].promise = "rejected"
                  /\ wins'[w].value = Value("", m.state, m.error, "")
             [] OTHER ->
                  /\ wins'[w].promise = "rejected"
                  /\ wins'[w].value =
                       Value("", "", "",
                             "OIDC: Both response and error where empty")
    ]_vars

\* C27 witness: one window took a message with neither response nor error,
\* another one a message with a response.
C27_Witness ==
  \E w, v \in Flows :
    /\ wins[w].promise = "rejected"
    /\ wins[w].value.reason = "OIDC: Both response and error where empty"
    /\ wins[v].promise = "resolved"
    /\ wins[v].value.code = "c"
    /\ msgs = {}

\* The surface of window w is sent to the authorization URL of flow f.
NavigatedTo(w, f) == wins[w].at # f /\ wins'[w].at = f

\* C28: in a popup or silent sign-in the surface is navigated to the
\* authorization URL only when the pointer, the request and the configuration
\* have been written; the keys of a sign-in are removed only when its window
\* has resolved; and a sign-in with a failed write rejects and navigates
\* nothing.
C28_WritesBeforeNavigation ==
  [][ \A f \in Flows :
        /\ \A w \in Flows :
             NavigatedTo(w, f)
               => /\ flows[f].pc = "persisting"
                  /\ flows[f].reason = ""
                  /\ f \in storage.cfgs
                  /\ f \in storage'.reqs
        /\ ( /\ flows[f].kind \in {"popup", "iframe"}
             /\ \/ f \in storage.reqs /\ f \notin storage'.reqs
                \/ f \in storage.cfgs /\ f \notin storage'.cfgs )
           => /\ flows'[f].win # 0
              /\ wins'[flows'[f].win].promise = "resolved"
              /\ flows'[f].pc = "exchanging"
        /\ flows'[f].reason = storeFailure(flows'[f].kind)
           => /\ flows'[f].result = "rejected"
              /\ flows'[f].win = 0
              /\ \A w \in Flows : wins'[w].at # f
    ]_vars

\* C28 witness: one sign-in whose request could not be written has rejected
\* with its pointer left behind and nothing navigated, another was navigated
\* after its three writes.
C28_Witness ==
  \E f, g \in Flows :
    /\ flows[f].reason = storeFailure(flows[f].kind)
    /\ flows[f].pc = "done"
    /\ f \in storage.cfgs
    /\ f \notin storage.reqs
    /\ flows[g].pc = "awaiting"
    /\ wins[flows[g].win].at = g
    /\ g \in storage.reqs

\* C29: with timers that fire, every transport window whose authorization
\* timer is armed is eventually settled unless abort() disarms it, and every
\* silent sign-in that waits for its window eventually stops waiting: its
\* window settles with a response, an error or a timeout.
C29_EventuallySettles ==
  /\ \A w \in Flows :
       (wins[w].promise = "pending" /\ wins[w].timeout)
         ~> (wins[w].promise # "pending" \/ ~wins[w].timeout)
  /\ \A f \in Flows :
       (flows[f].pc = "awaiting") ~> (flows[f].pc # "awaiting")

\* The refresh POSTs in flight.
RefreshPosts(rs) == {r \in rs : r.body.grant_type = "refresh_token"}

\* C30: a tick of the expiry monitor that finds the held token stale, with a
\* configuration and a refresh token, issues one refresh POST for each of its
\* two checks that fails, each with the refresh token held, whether or not a
\* refresh POST is in flight already; so refresh POSTs overlap.
C30_MonitorOverlaps ==
  [][ CheckExpire =>
        LET atr == accessTokenResponse
            a   == atr.held /\ ~isValid(atr, ExpireBuffer, now)
            b   == atr.held /\ ~isRefreshValid(atr, DefaultBuffer, now)
            n   == (IF a THEN 1 ELSE 0) + (IF b THEN 1 ELSE 0)
        IN ( /\ configuration
             /\ refreshToken # ""
             /\ atr.held
             /\ ~isValid(atr, DefaultBuffer, now) )
           => /\ requests \subseteq requests'
              /\ Cardinality(requests' \ requests) = n
              /\ \A r \in requests' \ requests :
                   /\ r.body.grant_type = "refresh_token"
                   /\ r.body.refresh_token = refreshToken
    ]_vars

\* C30 witness: a refreshTokens() call has a POST in flight, and a tick of the
\* monitor has added another one with the same refresh token.
C30_Witness ==
  /\ last.op = "checkExpire"
  /\ last.posted = 1
  /\ Cardinality(RefreshPosts(requests)) = 2
  /\ \E r \in requests : r.cont = "user"
  /\ \E r \in requests : r.cont = "monitor"
  /\ \A r \in RefreshPosts(requests) : r.body.refresh_token = refreshToken

\* C31: whenever the adapter holds an access-token response, the refresh token
\* it holds separately is the refresh token of that response.
C31_RefreshTokenOfResponse ==
  accessTokenResponse.held
    => refreshToken = accessTokenResponse.refreshToken

\* C31 witness: a refresh requested by the application after a code exchange
\* was answered with a new refresh token, and both fields hold it.
C31_Witness ==
  /\ last.op = "user"
  /\ last.result = "resolved"
  /\ accessTokenResponse.held
  /\ refreshToken = "rt3"
  /\ accessTokenResponse.refreshToken = "rt3"

\* C32: a token-endpoint answer that arrives right after signOut() has
\* returned, for a code exchange or a refresh that was in flight when
\* signOut() was called, leaves the adapter without an access-token response
\* and without a refresh token and delivers no RENEWED.
C32_SignOutOutlastsAnswers ==
  [][last.op = "signOut" /\ TokenEndpointResponds
       => /\ ~accessTokenResponse'.held
          /\ refreshToken' = ""
          /\ ~last'.renewed
          /\ event' = event]_vars

\* C33: a tick of the expiry monitor delivers no RENEWED by itself: RENEWED
\* for a tick comes only with the token-endpoint answer that replaces the held
\* response, so a tick whose refreshTokens() resolves without a request
\* notifies nobody.
C33_TickAloneIsSilent ==
  [][CheckExpire => ~last'.renewed /\ event' = event]_vars

\* C34: when the window of a popup or iframe flow g resolves and the handler
\* clears g's keys, a current-request pointer that names another flow f which
\* is still writing its request or waiting for its window stays as it is.
C34_PointerOfOtherFlowKept ==
  [][\A f \in Flows, g \in Flows :
       /\ f # g
       /\ storage.pointer = f
       /\ flows[f].pc \in {"persisting", "awaiting"}
       /\ flows'[f].pc = flows[f].pc
       /\ flows[g].pc = "awaiting"
       /\ flows'[g].pc = "exchanging"
       => storage'.pointer = f]_vars

\* C35: with two iframe sign-ins f and g under way, a step in which f is
\* rejected while g stays in progress leaves the iframe that g's call
\* created in the document, and once an iframe sign-in has ended the iframe
\* its call created is out of the document.
C35_OwnIFrameOnly ==
  [][/\ \A f \in Flows, g \in Flows :
          /\ f # g
          /\ flows[f].kind = "iframe"
          /\ flows[g].kind = "iframe"
          /\ flows[f].result = "pending"
          /\ flows'[f].result = "rejected"
          /\ flows'[g].result = "pending"
          => wins'[g].surface = wins[g].surface
     /\ \A f \in Flows :
          flows'[f].kind = "iframe" /\ flows'[f].pc = "done"
            => wins'[f].surface = "null"]_vars

\* C36: a popup or iframe sign-in goes on to exchange a code at the token
\* endpoint only when the response its window resolved with carries the state
\* of the sign-in's own authorization request.
C36_ExchangeOnlyOwnState ==
  [][\A f \in Flows :
       /\ flows[f].kind \in {"popup", "iframe"}
       /\ flows[f].pc = "awaiting"
       /\ flows'[f].pc = "exchanging"
       => wins'[flows[f].win].value.state = flows[f].state]_vars

\* The token request r has failed in this step: the requestor rejected
\* (network failure or a status outside 2xx) or the body was a token error.
TokenRequestFailed(r) ==
  /\ r \in requests \ requests'
  /\ last'.op = r.cont
  /\ last'.result = "rejected"
  /\ last'.value \in {"network", "invalid_grant"}

\* C37: a code exchange or refresh that fails leaves the held access-token
\* response and the refresh token as they were before the request's answer
\* and notifies no handler.
C37_FailureKeepsTokens ==
  [][(\E r \in requests : TokenRequestFailed(r))
       => /\ accessTokenResponse' = accessTokenResponse
          /\ refreshToken' = refreshToken
          /\ event' = event
          /\ ~last'.renewed]_vars

\* C37 witness: a refresh of the expiry monitor has failed while the adapter
\* holds a response with a refresh token, and both are still held.
C37_Witness ==
  /\ last.op = "monitor"
  /\ last.result = "rejected"
  /\ last.value \in {"network", "invalid_grant"}
  /\ accessTokenResponse.held
  /\ refreshToken # ""
  /\ refreshToken = accessTokenResponse.refreshToken

\* C38: an adapter that holds a service configuration keeps holding one: no
\* failed fetch, signOut() or signOutRedirect() returns it to the unconfigured
\* state.
C38_ConfigurationKept ==
  [][configuration => configuration']_vars

\* C38 witness: signOutRedirect() has returned on a configured adapter, which
\* is still configured.
C38_Witness ==
  /\ configuration
  /\ last.op = "signOutRedirect"

\* ------------------------------------------------------------ store machine

\* The Redux store behind a provider whose handler is registered: the slice
\* actions are dispatched in any order, token_updated with the responses the
\* token endpoint gives as time passes.
InitSlice ==
  /\ InitAdapter
  /\ InitFlows
  /\ InitStore
  /\ idp \in Lifetimes
  /\ settings = [redirectUri |-> "R", popupRedirectUri |-> "",
                 silentRedirectUri |-> ""]

NextSlice ==
  \/ DispatchExpired
  \/ DispatchLoading
  \/ DispatchLoaded
  \/ DispatchLoggedOut
  \/ UpdateStateRenewed
  \/ Tick

SpecSlice == InitSlice /\ [][NextSlice]_vars

\* C39: after any sequence of expired, loading, loaded, logged_out and
\* token_updated from the initial state, the slice is never authenticated and
\* expired at once.
C39_AuthedExcludesExpired ==
  ~(auth.isAuthed /\ auth.isExpired)

\* C40: for a token response that has expires_in and refresh_expires_in, the
\* state token_updated publishes holds
\* refresh_token_expire = (issued_at + refresh_expires_in) * 1000 and
\* access_token_expire = (issued_at + expires_in) * 1000.
C40_ExpiryTimestamps ==
  [][(/\ UpdateStateRenewed
      /\ auth' # auth
      /\ event'.payload.expiresIn # 0
      /\ event'.payload.refreshExpiresIn # 0)
       => LET resp == event'.payload
          IN /\ auth'.access_token_expire =
                  (resp.issuedAt + resp.expiresIn) * 1000
             /\ auth'.refresh_token_expire =
                  (resp.issuedAt + resp.refreshExpiresIn) * 1000]_vars

====
